---- MODULE Spec2Model ----
(***************************************************************************)
(* Network Cartographer: the in-memory scenario server (server/storage,    *)
(* server/routes) and the client-side state machines of the React page     *)
(* (onboarding tour, home page, event notifications, map labels, orbit     *)
(* layout).  One handler, effect pass included, is one action.             *)
(***************************************************************************)
EXTENDS Integers, Sequences, FiniteSets, TLC

(***************************************************************************)
(* Bounds of the model                                                     *)
(***************************************************************************)
\* longest request id that is enumerated character by character
MaxShortId == 2
\* number of requests a run of the server serves
MaxRequests == 3

(***************************************************************************)
(* Generic helpers                                                         *)
(***************************************************************************)
None == "none"

Range(s) == {s[i] : i \in 1..Len(s)}

Repeat(c, n) == [i \in 1..n |-> c]

SeqsUpTo(S, n) == UNION {[1..k -> S] : k \in 0..n}

RECURSIVE SelectSeqBy(_, _)
\* Array.prototype.filter over a sequence of indices 1..Len(s)
SelectSeqBy(s, keep) ==
  IF s = <<>> THEN <<>>
  ELSE IF keep[Head(s)] THEN <<Head(s)>> \o SelectSeqBy(Tail(s), keep)
       ELSE SelectSeqBy(Tail(s), keep)

(***************************************************************************)
(* Scenario data (shared/schema, shared/scenarios)                         *)
(***************************************************************************)
\* scenario ids are strings, kept as sequences of characters
FamilyId == <<"f", "1">>
BusinessId == <<"b", "_">>
HotelId == <<"h", "-">>

Dev(id, type, networkId, riskFlags, openPorts, protocols) ==
  [id |-> id, type |-> type, networkId |-> networkId, riskFlags |-> riskFlags,
   openPorts |-> openPorts, protocols |-> protocols]

Net(id, zone) == [id |-> id, zone |-> zone]

Evt(id, trigger, deviceId) == [id |-> id, trigger |-> trigger, deviceId |-> deviceId]

Task(id, targetType, targetId) == [id |-> id, target |-> [type |-> targetType, id |-> targetId]]

familyIoTScenario ==
  [id |-> FamilyId,
   networks |-> <<Net("n_main", "main"), Net("n_iot", "iot")>>,
   devices |-> <<Dev("router", "router", "n_main", {}, <<80, 443>>, <<"HTTPS">>),
                 Dev("laptop", "laptop", "n_main", {}, <<>>, <<"HTTPS">>),
                 Dev("camera", "camera", "n_iot", {"iot_device", "unknown_device"}, <<554>>, <<"RTSP">>),
                 Dev("mystery", "unknown", "n_iot", {}, <<>>, <<>>)>>,
   events |-> <<Evt("welcome", "onEnter", None),
                Evt("unknown_device_reveal", "onDeviceClick", "mystery"),
                Evt("camera_note", "onDeviceClick", "mystery")>>,
   scenarioTasks |-> <<Task("t_isolate", "device", "camera"), Task("t_guest", "none", None)>>]

smallBusinessScenario ==
  [id |-> BusinessId,
   networks |-> <<Net("n_office", "main"), Net("n_guest", "guest")>>,
   devices |-> <<Dev("router", "router", "n_office", {}, <<443>>, <<>>),
                 Dev("printer", "printer", "n_office", {"default_password"}, <<9100>>, <<>>),
                 Dev("visitor", "phone", "n_guest", {"unknown_device"}, <<>>, <<>>)>>,
   events |-> <<Evt("unknown_device_alert", "onDeviceClick", "visitor")>>,
   scenarioTasks |-> <<>>]

hotelPublicScenario ==
  [id |-> HotelId,
   networks |-> <<Net("n_hotel", "guest")>>,
   devices |-> <<Dev("router", "router", "n_hotel", {}, <<>>, <<>>),
                 Dev("stranger", "unknown", "n_hotel", {"unknown_device"}, <<22>>, <<"SSH">>)>>,
   events |-> <<Evt("evil_twin_warning", "onEnter", None),
                Evt("portal_notice", "onEnter", None),
                Evt("unknown_device_alert", "onDeviceClick", "stranger")>>,
   scenarioTasks |-> <<Task("t_verify", "network", "n_hotel")>>]

InstalledScenarios == {familyIoTScenario, smallBusinessScenario, hotelPublicScenario}

InstalledIds == {s.id : s \in InstalledScenarios}

(***************************************************************************)
(* server/storage.ts: MemStorage                                           *)
(***************************************************************************)
\* the Map built by the constructor: scenario.id -> scenario
MemStorageInit == [k \in InstalledIds |-> CHOOSE s \in InstalledScenarios : s.id = k]

\* Array.from(this.scenarios.values())
getAllScenarios(store) == {store[k] : k \in DOMAIN store}

\* this.scenarios.get(id): the set holding the value, empty for undefined
getScenarioById(store, id) == IF id \in DOMAIN store THEN {store[id]} ELSE {}

(***************************************************************************)
(* server/routes.ts                                                        *)
(***************************************************************************)
MinIdLength == 1
MaxIdLength == 100

Lower == {"a","b","c","d","e","f","g","h","i","j","k","l","m",
          "n","o","p","q","r","s","t","u","v","w","x","y","z"}
Upper == {"A","B","C","D","E","F","G","H","I","J","K","L","M",
          "N","O","P","Q","R","S","T","U","V","W","X","Y","Z"}
Digit == {"0","1","2","3","4","5","6","7","8","9"}

\* the character class [a-zA-Z0-9_-]
IdCharClass == Lower \cup Upper \cup Digit \cup {"_", "-"}

IdRegexBroken(id) == Len(id) >= 1 /\ \A i \in 1..Len(id) : id[i] \in IdCharClass \cup {"/", "."}

\* /^[a-zA-Z0-9_-]+$/.test(id)
IdRegex(id) == Len(id) >= 1 /\ \A i \in 1..Len(id) : id[i] \in IdCharClass

\* z.string().min(1).max(100).regex(...).safeParse(id).success
scenarioIdSchema(id) ==
  /\ Len(id) >= MinIdLength
  /\ Len(id) <= MaxIdLength
  /\ IdRegex(id)

summaryCountingNetworks(s) ==
  [id |-> s.id, deviceCount |-> Len(s.networks), networkCount |-> Len(s.networks)]

\* one element of scenarios.map(s => ({ id, ..., deviceCount, networkCount }))
summary(s) == [id |-> s.id, deviceCount |-> Len(s.devices), networkCount |-> Len(s.networks)]

\* characters a request id is built from: valid ones of every class and invalid ones
RequestChars == {"f", "1", "b", "_", "h", "-", "Q", "/", " ", "."}

RequestIds ==
  SeqsUpTo(RequestChars, MaxShortId)
    \cup {Repeat(c, n) : c \in {"a", "/"}, n \in {MaxIdLength - 1, MaxIdLength, MaxIdLength + 1}}
    \cup {Repeat("a", MaxIdLength - 1) \o <<c>> : c \in {"-", "/"}}

VARIABLES
  scenarios,      \* MemStorage.scenarios
  request,        \* the request being answered: [route, id]
  response,       \* the answer to it: status, error message, scenario or summaries
  storageReads,   \* number of calls of a MemStorage method so far
  served,         \* number of requests answered so far
  tour,           \* OnboardingProvider: state, isActive, isGatingSatisfied
  localStore,     \* localStorage: onboarding state, focus mode, suppressed scenarios
  cache,          \* react-query cache: scenario list and fetched scenarios
  home,           \* Home: the useState hooks of the page
  acts,           \* ScenarioActions: the useState hooks of the guided tasks
  notif,          \* EventNotifications: the useState hooks of the notifications
  nodeLabel,      \* NetworkCanvas: a DeviceNode, its props and the label it shows
  orbit,          \* NetworkCanvas: the scenario prop and the devicePositions memo
  validator,      \* scripts/i18n-validate.js: a run of the script
  dialog,         \* ScenarioExportImport: its state hooks, timeoutRefs and the timers it set
  filterView,     \* useDeviceFilter: its arguments and the memoised result
  quiz,           \* LearningPrompts: its props and state hooks
  encryptionBadge \* a DeviceNode of NetworkCanvas and the encryption status it shows

apiVars == <<scenarios, request, response, storageReads, served>>

homeVars == <<tour, localStore, cache, home, acts, notif>>

canvasVars == <<nodeLabel, orbit>>

toolVars == <<validator, dialog, filterView, quiz, encryptionBadge>>

pageVars == <<tour, localStore, cache, home, acts, notif, nodeLabel, orbit,
              validator, dialog, filterView, quiz, encryptionBadge>>

vars == <<scenarios, request, response, storageReads, served,
          tour, localStore, cache, home, acts, notif, nodeLabel, orbit,
          validator, dialog, filterView, quiz, encryptionBadge>>

NoRequest == [route |-> None, id |-> <<>>]
Answer(status, error, scenario, summaries) ==
  [status |-> status, error |-> error, scenario |-> scenario, summaries |-> summaries]

NoResponse == Answer(0, "", {}, {})

ApiInit ==
  /\ scenarios = MemStorageInit
  /\ request = NoRequest
  /\ response = NoResponse
  /\ storageReads = 0
  /\ served = 0

\* app.get("/api/scenarios")
GetScenarios ==
  /\ served < MaxRequests
  /\ request' = [route |-> "list", id |-> <<>>]
  /\ response' = Answer(200, "", {}, {summary(s) : s \in getAllScenarios(scenarios)})
  /\ storageReads' = storageReads + 1
  /\ served' = served + 1
  /\ UNCHANGED <<scenarios, pageVars>>

GetScenarioCaching ==
  \E id \in RequestIds :
    /\ served < MaxRequests
    /\ request' = [route |-> "byId", id |-> id]
    /\ served' = served + 1
    /\ IF ~scenarioIdSchema(id)
         THEN /\ response' = Answer(400, "Invalid scenario ID format", {}, {})
              /\ UNCHANGED <<storageReads, scenarios>>
         ELSE /\ storageReads' = storageReads + 1
              /\ IF getScenarioById(scenarios, id) = {}
                   THEN /\ response' = Answer(404, "Scenario not found", {}, {})
                        /\ scenarios' = [k \in DOMAIN scenarios \cup {id} |->
                                           IF k = id THEN [familyIoTScenario EXCEPT !.id = id]
                                           ELSE scenarios[k]]
                   ELSE /\ response' = Answer(200, "", getScenarioById(scenarios, id), {})
                        /\ UNCHANGED scenarios
    /\ UNCHANGED pageVars

\* app.get("/api/scenarios/:id")
GetScenario ==
  \E id \in RequestIds :
    /\ served < MaxRequests
    /\ request' = [route |-> "byId", id |-> id]
    /\ served' = served + 1
    /\ IF ~scenarioIdSchema(id)
         THEN /\ response' = Answer(400, "Invalid scenario ID format", {}, {})
              /\ UNCHANGED storageReads
         ELSE /\ storageReads' = storageReads + 1
              /\ IF getScenarioById(scenarios, id) = {}
                   THEN response' = Answer(404, "Scenario not found", {}, {})
                   ELSE response' = Answer(200, "", getScenarioById(scenarios, id), {})
    /\ UNCHANGED <<scenarios, pageVars>>

(***************************************************************************)
(* client/src/components/OnboardingProvider.tsx                            *)
(***************************************************************************)
Step(id, gatingAction) == [id |-> id, gatingAction |-> gatingAction]

ONBOARDING_STEPS ==
  << Step("welcome_hook", None), Step("welcome_challenge", None), Step("welcome_mission", None),
     Step("map_solar_system", None), Step("map_trust_zones", None),
     Step("map_device_indicators", None),
     Step("scenario_contexts", None),
     Step("scenario_select", "onboarding.gating.selectScenario"),
     Step("layers_why", None),
     Step("layers_link", "onboarding.gating.clickLink"),
     Step("layers_network", "onboarding.gating.clickNetwork"),
     Step("layers_transport", "onboarding.gating.clickTransport"),
     Step("layers_application", "onboarding.gating.clickApplication"),
     Step("device_inspection", "onboarding.gating.clickDevice"),
     Step("device_risk_flags", None), Step("device_learn_tab", None),
     Step("quiz_intro", None), Step("mission_complete", None) >>

NoStep == Step(None, None)

\* the autoStart prop of the provider (default value)
autoStart == TRUE

\* the OnboardingState a first visit starts from
FreshOnboarding == [completed |-> FALSE, currentStep |-> 0, started |-> FALSE]

\* useState initialisers of the provider, from the stored OnboardingState;
\* satisfyCalled is a history field: satisfyGating was called during this visit of the step
TourMount(stored) ==
  [completed |-> stored.completed, currentStep |-> stored.currentStep, started |-> stored.started,
   isActive |-> FALSE, isGatingSatisfied |-> TRUE, satisfyCalled |-> FALSE]

\* the OnboardingState written by the persistence effect
TourState(t) == [completed |-> t.completed, currentStep |-> t.currentStep, started |-> t.started]

\* const currentStep = isActive ? ONBOARDING_STEPS[state.currentStep] || null : null
currentStep(t) ==
  IF t.isActive /\ t.currentStep + 1 \in DOMAIN ONBOARDING_STEPS
    THEN ONBOARDING_STEPS[t.currentStep + 1]
    ELSE NoStep

\* the dependency of the gating effect: currentStep?.gatingAction
gatingDep(t) == currentStep(t).gatingAction

GatingEffectMissing(old, t) == t

\* useEffect(..., [currentStep?.gatingAction]) after a render that changed the dependency
GatingEffect(old, t) ==
  IF gatingDep(old) # gatingDep(t)
    THEN [t EXCEPT !.isGatingSatisfied = (gatingDep(t) = None)]
    ELSE t

\* history: a new visit of a step starts with no satisfyGating call
VisitEffect(old, t) ==
  IF currentStep(old) # currentStep(t) THEN [t EXCEPT !.satisfyCalled = FALSE] ELSE t

satisfyGating(t) == [t EXCEPT !.isGatingSatisfied = TRUE, !.satisfyCalled = TRUE]

nextStep(t) ==
  IF t.currentStep >= Len(ONBOARDING_STEPS) - 1
    THEN [t EXCEPT !.completed = TRUE, !.isActive = FALSE]
    ELSE [t EXCEPT !.currentStep = @ + 1]

prevStep(t) == IF t.currentStep > 0 THEN [t EXCEPT !.currentStep = @ - 1] ELSE t

skipOnboarding(t) == [t EXCEPT !.completed = TRUE, !.isActive = FALSE]

restartOnboarding(t) ==
  [t EXCEPT !.completed = FALSE, !.currentStep = 0, !.started = TRUE, !.isActive = TRUE]

\* the callback of the auto-start timer
autoStartTimer(t) == [t EXCEPT !.isActive = TRUE, !.started = TRUE]

autoStartPendingAlways(t) == autoStart /\ ~t.isActive

\* the auto-start effect has a timer pending
autoStartPending(t) == autoStart /\ ~t.completed /\ ~t.isActive

\* SpotlightOverlay is rendered
overlayShown(t) == t.isActive /\ currentStep(t) # NoStep

\* SpotlightOverlay: the Next button is rendered and not disabled
nextEnabled(t) ==
  /\ overlayShown(t)
  /\ (IF gatingDep(t) # None THEN t.isGatingSatisfied ELSE TRUE)

showPrev(t) == t.currentStep > 2
showSkip(t) == t.currentStep >= 2

(***************************************************************************)
(* client/src/pages/home.tsx: state and derived values                     *)
(***************************************************************************)
NoId == <<>>

NoScenario == [id |-> NoId, networks |-> <<>>, devices |-> <<>>, events |-> <<>>,
               scenarioTasks |-> <<>>]

NoTask == Task(None, None, None)

NoOutcome == [taskId |-> None, target |-> [type |-> None, id |-> None]]

defaultFilters == [searchQuery |-> <<>>, deviceTypes |-> {}, networkZones |-> {},
                   showRisksOnly |-> FALSE]

\* filter settings the user can make in the DeviceFilter panel
FilterChoices ==
  {defaultFilters,
   [defaultFilters EXCEPT !.showRisksOnly = TRUE],
   [defaultFilters EXCEPT !.deviceTypes = {"camera"}]}

LayerModes == <<"link", "network", "transport", "application">>

\* a scenario the user pastes into the import dialog
customScenario ==
  [id |-> <<"x">>,
   networks |-> <<Net("n_lab", "main")>>,
   devices |-> <<Dev("router", "router", "n_lab", {}, <<>>, <<>>),
                 Dev("probe", "unknown", "n_lab", {}, <<>>, <<>>)>>,
   events |-> <<Evt("lab_intro", "onEnter", None), Evt("probe_alert", "onDeviceClick", "probe")>>,
   scenarioTasks |-> <<Task("t_block", "device", "probe")>>]

ImportableScenarios == {customScenario}

\* the order of GET /api/scenarios: insertion order of the Map
SummaryIds == <<FamilyId, BusinessId, HotelId>>

\* a keydown event: e.key, e.ctrlKey, e.metaKey, document.activeElement.tagName
KeyEvent(key, ctrlKey, metaKey, tagName) ==
  [key |-> key, ctrlKey |-> ctrlKey, metaKey |-> metaKey, tagName |-> tagName]

\* no key was pressed
NoKey == KeyEvent(None, FALSE, FALSE, None)

\* useState initialisers of Home, from localStorage;
\* clicked and pressed are history fields: the device the last handler run was a click on,
\* if it was one, and the keydown event it handled, if it handled one
HomeMount(store) ==
  [selectedScenarioId |-> NoId, activeLayer |-> "network", selectedDeviceId |-> None,
   viewMode |-> "map", filters |-> defaultFilters, showPacketJourney |-> FALSE,
   showComparison |-> FALSE, importedScenario |-> NoScenario, showUnknownModal |-> FALSE,
   actionsResetKey |-> 0, focusMode |-> store.focusMode, activeTask |-> NoTask,
   actionOutcome |-> NoOutcome, suppressUnknownScenarios |-> store.suppressUnknown,
   clicked |-> None, pressed |-> NoKey]

\* data of useQuery(["/api/scenarios", selectedScenarioId])
fetchedScenario(p) ==
  IF \E s \in p.cache.fetched : s.id = p.home.selectedScenarioId
    THEN CHOOSE s \in p.cache.fetched : s.id = p.home.selectedScenarioId
    ELSE NoScenario

\* const activeScenario = importedScenario || scenario
activeScenario(p) ==
  IF p.home.importedScenario # NoScenario THEN p.home.importedScenario ELSE fetchedScenario(p)

Min(S) == CHOOSE x \in S : \A y \in S : x <= y

\* devices.find(d => d.id === deviceId): the set holding the first match, empty for undefined
findDevice(scenario, deviceId) ==
  LET hits == {j \in DOMAIN scenario.devices : scenario.devices[j].id = deviceId}
  IN IF hits = {} THEN {} ELSE {scenario.devices[Min(hits)]}

\* device.type === "unknown" || device.riskFlags.includes("unknown_device")
isUnknownDevice(d) == d.type = "unknown" \/ "unknown_device" \in d.riskFlags

\* const selectedDevice = activeScenario?.devices.find(d => d.id === selectedDeviceId) || null
selectedDevice(p) == findDevice(activeScenario(p), p.home.selectedDeviceId)

disableAdvancedViews(p) == p.home.focusMode \/ p.tour.isActive

suppressUnknownModal(p) ==
  activeScenario(p) # NoScenario /\ activeScenario(p).id \in p.home.suppressUnknownScenarios

tasksInProgress(p) == p.home.activeTask # NoTask

showInlineUnknown(p) ==
  /\ \E d \in selectedDevice(p) : isUnknownDevice(d)
  /\ tasksInProgress(p)
  /\ ~suppressUnknownModal(p)

\* UnknownDeviceModal renders an open dialog
unknownModalVisible(p) ==
  /\ p.home.showUnknownModal
  /\ \E d \in selectedDevice(p) : isUnknownDevice(d)

(***************************************************************************)
(* client/src/components/ScenarioActions.tsx                               *)
(***************************************************************************)
\* useState initialisers of ScenarioActions; mounted: the component is rendered;
\* reported: the task ids the handler that ran last passed to onActionComplete
ActsMount == [mounted |-> TRUE, currentIndex |-> 0, completedIds |-> {}, status |-> "idle",
              showDebrief |-> FALSE, reported |-> <<>>]

ActsUnmounted == [ActsMount EXCEPT !.mounted = FALSE]

tasksOf(p) == activeScenario(p).scenarioTasks

safeIndex(p) == IF p.acts.currentIndex < Len(tasksOf(p)) THEN p.acts.currentIndex ELSE 0

\* const currentTask = tasks[safeIndex]
currentTask(p) == IF Len(tasksOf(p)) > 0 THEN tasksOf(p)[safeIndex(p) + 1] ELSE NoTask

isComplete(p) == Cardinality(p.acts.completedIds) = Len(tasksOf(p)) /\ Len(tasksOf(p)) > 0

isLastTask(p) == safeIndex(p) = Len(tasksOf(p)) - 1

isTargetMatchById(p) ==
  LET task == currentTask(p) IN
  IF task = NoTask THEN FALSE
  ELSE IF task.target.type = "none" THEN TRUE
  ELSE \E d \in selectedDevice(p) : d.id = task.target.id

isTargetMatch(p) ==
  LET task == currentTask(p) IN
  IF task = NoTask THEN FALSE
  ELSE IF task.target.type = "none" THEN TRUE
  ELSE IF selectedDevice(p) = {} THEN FALSE
  ELSE IF task.target.type = "device" THEN \E d \in selectedDevice(p) : d.id = task.target.id
  ELSE IF task.target.type = "network" THEN \E d \in selectedDevice(p) : d.networkId = task.target.id
  ELSE FALSE

selectionKey(p) ==
  IF selectedDevice(p) = {} THEN <<None>>
  ELSE LET d == CHOOSE d \in selectedDevice(p) : TRUE IN <<d.id, d.networkId>>

\* ScenarioActions is rendered by Home
actsRendered(p) == activeScenario(p) # NoScenario /\ Len(tasksOf(p)) > 0

handleComplete(p) ==
  IF currentTask(p) = NoTask THEN p
  ELSE IF isTargetMatch(p)
    THEN [p EXCEPT !.acts.completedIds = @ \cup {currentTask(p).id},
                   !.acts.status = "success",
                   !.acts.reported = Append(@, currentTask(p).id),
                   !.home.actionOutcome = [taskId |-> currentTask(p).id,
                                           target |-> currentTask(p).target]]
    ELSE [p EXCEPT !.acts.status = "failure"]

handleNextTask(p) ==
  IF isLastTask(p) THEN [p EXCEPT !.acts.showDebrief = TRUE]
  ELSE [p EXCEPT !.acts.currentIndex = @ + 1, !.acts.status = "idle"]

handleRestart(p) == [p EXCEPT !.acts = ActsMount]

handleTryAgain(p) == [p EXCEPT !.acts.status = "idle"]

ActsEffectsIgnoringResetKey(old, p) ==
  IF ~actsRendered(p) THEN [p EXCEPT !.acts = ActsUnmounted]
  ELSE IF ~old.acts.mounted THEN [p EXCEPT !.acts = ActsMount]
  ELSE IF activeScenario(old).id # activeScenario(p).id THEN [p EXCEPT !.acts = ActsMount]
  ELSE IF selectionKey(old) # selectionKey(p) /\ p.acts.status = "failure"
    THEN [p EXCEPT !.acts.status = "idle"]
  ELSE p

\* the effects of ScenarioActions after a render: mount, reset on [scenario.id, resetKey],
\* failure cleared on a new selection
ActsEffects(old, p) ==
  IF ~actsRendered(p) THEN [p EXCEPT !.acts = ActsUnmounted]
  ELSE IF ~old.acts.mounted THEN [p EXCEPT !.acts = ActsMount]
  ELSE IF \/ activeScenario(old).id # activeScenario(p).id
          \/ old.home.actionsResetKey # p.home.actionsResetKey
    THEN [p EXCEPT !.acts = ActsMount]
  ELSE IF selectionKey(old) # selectionKey(p) /\ p.acts.status = "failure"
    THEN [p EXCEPT !.acts.status = "idle"]
  ELSE p

\* onTaskChange of ScenarioActions and the [activeScenario] effect of Home
ActiveTaskEffect(p) ==
  IF actsRendered(p) /\ ~isComplete(p)
    THEN [p EXCEPT !.home.activeTask = currentTask(p)]
    ELSE [p EXCEPT !.home.activeTask = NoTask]

(***************************************************************************)
(* client/src/pages/home.tsx: handlers and effects                         *)
(***************************************************************************)
handleReset(p) ==
  [p EXCEPT !.home.selectedDeviceId = None,
            !.home.filters = defaultFilters,
            !.home.showPacketJourney = FALSE,
            !.home.showComparison = FALSE,
            !.home.importedScenario = NoScenario,
            !.home.actionOutcome = NoOutcome,
            !.home.activeTask = NoTask,
            !.home.actionsResetKey = @ + 1]

handleScenarioChange(p, id) ==
  [p EXCEPT !.home.selectedScenarioId = id,
            !.home.selectedDeviceId = None,
            !.home.filters = defaultFilters,
            !.home.showPacketJourney = FALSE,
            !.home.importedScenario = NoScenario,
            !.home.actionOutcome = NoOutcome,
            !.home.activeTask = NoTask,
            !.home.actionsResetKey = @ + 1]

handleTogglePacketJourney(p) == [p EXCEPT !.home.showPacketJourney = ~@]

handleToggleFocusMode(p, enabled) ==
  IF enabled
    THEN [p EXCEPT !.home.focusMode = TRUE,
                   !.home.viewMode = "map",
                   !.home.showComparison = FALSE,
                   !.home.showPacketJourney = FALSE,
                   !.home.filters = defaultFilters]
    ELSE [p EXCEPT !.home.focusMode = FALSE]

handleSuppressUnknownKeepsModal(p) ==
  IF activeScenario(p) = NoScenario THEN p
  ELSE [p EXCEPT !.home.suppressUnknownScenarios = @ \cup {activeScenario(p).id}]

handleSuppressUnknown(p) ==
  IF activeScenario(p) = NoScenario THEN p
  ELSE [p EXCEPT !.home.suppressUnknownScenarios = @ \cup {activeScenario(p).id},
                 !.home.showUnknownModal = FALSE]

handleShowUnknownDetails(p) ==
  IF suppressUnknownModal(p) THEN p ELSE [p EXCEPT !.home.showUnknownModal = TRUE]

handleImportScenario(p, imported) ==
  [p EXCEPT !.home.importedScenario = imported,
            !.home.selectedDeviceId = None,
            !.home.filters = defaultFilters,
            !.home.showPacketJourney = FALSE,
            !.home.showComparison = FALSE,
            !.home.actionOutcome = NoOutcome,
            !.home.activeTask = NoTask,
            !.home.actionsResetKey = @ + 1]

handleDeviceSelectAlways(p, deviceId) ==
  LET device == findDevice(activeScenario(p), deviceId)
      p1 == [p EXCEPT !.home.selectedDeviceId = deviceId, !.home.clicked = deviceId]
      p2 == IF \E d \in device : isUnknownDevice(d)
              THEN [p1 EXCEPT !.home.showUnknownModal = TRUE]
              ELSE p1
  IN IF p.tour.isActive /\ currentStep(p.tour).id = "device_inspection"
       THEN [p2 EXCEPT !.tour = satisfyGating(@)]
       ELSE p2

handleDeviceSelect(p, deviceId) ==
  LET device == findDevice(activeScenario(p), deviceId)
      p1 == [p EXCEPT !.home.selectedDeviceId = deviceId, !.home.clicked = deviceId]
      p2 == IF \E d \in device : isUnknownDevice(d)
              THEN IF suppressUnknownModal(p) \/ p.home.activeTask # NoTask
                     THEN [p1 EXCEPT !.home.showUnknownModal = FALSE]
                     ELSE [p1 EXCEPT !.home.showUnknownModal = TRUE]
              ELSE p1
  IN IF p.tour.isActive /\ currentStep(p.tour).id = "device_inspection"
       THEN [p2 EXCEPT !.tour = satisfyGating(@)]
       ELSE p2

\* e.key >= "1" && e.key <= "4" with layers[parseInt(e.key) - 1] defined
layerOfKey(key) ==
  CASE key = "1" -> <<"link">>
    [] key = "2" -> <<"network">>
    [] key = "3" -> <<"transport">>
    [] key = "4" -> <<"application">>
    [] OTHER -> <<>>

inTextField(e) == e.tagName = "INPUT" \/ e.tagName = "TEXTAREA"

handleKeyDownNoFocusCheck(p, e) ==
  LET p0 == [p EXCEPT !.home.pressed = e]
      p1 == IF e.key = "Escape" THEN [p0 EXCEPT !.home.selectedDeviceId = None] ELSE p0
      p2 == IF e.key = "r" /\ ~e.metaKey /\ ~e.ctrlKey THEN handleReset(p1) ELSE p1
  IN IF layerOfKey(e.key) # <<>> /\ ~e.metaKey /\ ~e.ctrlKey
       THEN [p2 EXCEPT !.home.activeLayer = layerOfKey(e.key)[1]]
       ELSE p2

handleKeyDown(p, e) ==
  LET p0 == [p EXCEPT !.home.pressed = e]
      p1 == IF e.key = "Escape" THEN [p0 EXCEPT !.home.selectedDeviceId = None] ELSE p0
      p2 == IF e.key = "r" /\ ~e.metaKey /\ ~e.ctrlKey /\ ~inTextField(e)
              THEN handleReset(p1) ELSE p1
  IN IF layerOfKey(e.key) # <<>> /\ ~e.metaKey /\ ~e.ctrlKey /\ ~inTextField(e)
       THEN [p2 EXCEPT !.home.activeLayer = layerOfKey(e.key)[1]]
       ELSE p2

\* ScenarioSelector.handleSelect
selectorHandleSelect(p, id) ==
  LET p1 == handleScenarioChange(p, id)
  IN IF p.tour.isActive /\ currentStep(p.tour).id = "scenario_select"
       THEN [p1 EXCEPT !.tour = satisfyGating(@)]
       ELSE p1

\* LayerGoggles.handleLayerChange with onChange = setActiveLayer
gogglesHandleLayerChange(p, newLayer) ==
  IF newLayer = p.home.activeLayer THEN p ELSE [p EXCEPT !.home.activeLayer = newLayer]

\* the effects of Home after a render: first scenario selected once the list is there,
\* focus mode and the tour force the map
HomeEffects(p) ==
  LET p1 == IF p.cache.list /\ p.home.selectedScenarioId = NoId
              THEN [p EXCEPT !.home.selectedScenarioId = SummaryIds[1]] ELSE p
      p2 == IF p1.home.focusMode
              THEN [p1 EXCEPT !.home.viewMode = "map", !.home.showComparison = FALSE,
                              !.home.showPacketJourney = FALSE]
              ELSE p1
  IN IF p2.tour.isActive THEN [p2 EXCEPT !.home.viewMode = "map"] ELSE p2

(***************************************************************************)
(* client/src/components/EventNotifications.tsx                            *)
(***************************************************************************)
NoEvent == Evt(None, None, None)

\* useState initialisers of EventNotifications; mounted: the component is rendered;
\* newSets: a handler replaced dismissedEvents by a new Set in this render
NotifMount == [mounted |-> TRUE, activeEvent |-> NoEvent, dismissedEvents |-> {},
               shownOnEnterEvents |-> {}, newSets |-> FALSE]

NotifUnmounted == [NotifMount EXCEPT !.mounted = FALSE]

eventsOf(p) == activeScenario(p).events

\* events.filter(e => e.trigger === "onEnter" && !shown.has(e.id) && !dismissed.has(e.id))
onEnterEvents(p) ==
  LET keep == [e \in Range(eventsOf(p)) |->
                 /\ e.trigger = "onEnter"
                 /\ e.id \notin p.notif.shownOnEnterEvents
                 /\ e.id \notin p.notif.dismissedEvents]
  IN SelectSeqBy(eventsOf(p), keep)

\* events.find(e => onDeviceClick && e.deviceId === selectedDeviceId && !dismissed.has(e.id))
clickEvent(p) ==
  LET hits == {j \in DOMAIN eventsOf(p) :
                 /\ eventsOf(p)[j].trigger = "onDeviceClick"
                 /\ eventsOf(p)[j].deviceId = p.home.selectedDeviceId
                 /\ eventsOf(p)[j].id \notin p.notif.dismissedEvents}
  IN IF hits = {} THEN {} ELSE {eventsOf(p)[Min(hits)]}

\* the third effect: [selectedDeviceId, events, dismissedEvents]
ClickEffect(p) ==
  IF p.home.selectedDeviceId = None \/ clickEvent(p) = {} THEN p
  ELSE [p EXCEPT !.notif.activeEvent = CHOOSE e \in clickEvent(p) : TRUE]

ClickEffectOnEveryRender(old, p) == ClickEffect(p)

\* the third effect runs after a render in which one of its dependencies changed
ClickEffectIfChanged(old, p) ==
  IF \/ old.home.selectedDeviceId # p.home.selectedDeviceId
     \/ eventsOf(old) # eventsOf(p)
     \/ p.notif.newSets
    THEN ClickEffect(p)
    ELSE p

\* the callback of the 800 ms timer of the second effect
onEnterTimer(p) ==
  [p EXCEPT !.notif.activeEvent = onEnterEvents(p)[1],
            !.notif.shownOnEnterEvents = @ \cup {onEnterEvents(p)[1].id}]

handleDismissKeepsEvent(p) == [p EXCEPT !.notif.activeEvent = NoEvent]

handleDismiss(p) ==
  IF p.notif.activeEvent # NoEvent
    THEN [p EXCEPT !.notif.dismissedEvents = @ \cup {p.notif.activeEvent.id},
                   !.notif.newSets = TRUE,
                   !.notif.activeEvent = NoEvent]
    ELSE [p EXCEPT !.notif.activeEvent = NoEvent]

\* the effects of EventNotifications after a render: mount, reset on [scenarioId],
\* then the third effect with the state the reset left
NotifEffects(old, p) ==
  LET p1 == IF activeScenario(p) = NoScenario THEN [p EXCEPT !.notif = NotifUnmounted]
            ELSE IF ~old.notif.mounted THEN ClickEffect([p EXCEPT !.notif = NotifMount])
            ELSE IF activeScenario(old).id # activeScenario(p).id
              THEN ClickEffect([p EXCEPT !.notif = NotifMount])
            ELSE ClickEffectIfChanged(old, p)
  IN [p1 EXCEPT !.notif.newSets = FALSE]

(***************************************************************************)
(* client/src/components/NetworkCanvas.tsx: the label of a device node     *)
(***************************************************************************)
\* longest openPorts and protocols lists of the devices that are labelled
MaxPorts == 3
MaxProtocols == 2

\* one entry of a label (the entries are joined by ", "): what it shows and its text
Entry(kind, text) == [kind |-> kind, text |-> text]

Dash == <<Entry("dash", "-")>>

\* portToService[p]: the sequence holding the service name, empty for undefined
portToService(p) ==
  CASE p = 22 -> <<"SSH">>
    [] p = 80 -> <<"HTTP">>
    [] p = 443 -> <<"HTTPS">>
    [] p = 445 -> <<"SMB">>
    [] p = 554 -> <<"RTSP">>
    [] p = 9100 -> <<"Print">>
    [] OTHER -> <<>>

\* portToFlow[p]
portToFlow(p) ==
  CASE p \in {80, 443} -> <<"web">>
    [] p = 22 -> <<"remote">>
    [] p \in {445, 9100} -> <<"file">>
    [] p = 554 -> <<"video">>
    [] OTHER -> <<>>

\* String.prototype.toLowerCase on the protocol names of the devices
toLowerCase(s) ==
  CASE s = "HTTPS" -> "https"
    [] s = "SSH" -> "ssh"
    [] s = "mDNS" -> "mdns"
    [] OTHER -> s

\* protocolToFlow[key]
protocolToFlow(key) ==
  CASE key \in {"https", "http", "crm"} -> <<"web">>
    [] key \in {"smtp", "imap", "pop3", "email"} -> <<"email">>
    [] key \in {"youtube", "netflix", "disney+", "zoom"} -> <<"video">>
    [] key \in {"ssh", "rdp", "wireguard", "openvpn", "ipsec"} -> <<"remote">>
    [] key = "smb" -> <<"file">>
    [] key \in {"imessage", "whatsapp", "signal", "alexa"} -> <<"chat">>
    [] OTHER -> <<>>

RECURSIVE AddAll(_, _)
\* Set.prototype.add for each element of xs: the Set in insertion order
AddAll(set, xs) ==
  IF xs = <<>> THEN set
  ELSE AddAll(IF Head(xs) \in Range(set) THEN set ELSE Append(set, Head(xs)), Tail(xs))

RECURSIVE Flatten(_)
Flatten(ss) == IF ss = <<>> THEN <<>> ELSE Head(ss) \o Flatten(Tail(ss))

\* Array.prototype.slice(0, n)
slice(s, n) == SubSeq(s, 1, IF Len(s) < n THEN Len(s) ELSE n)

getFlowCategories(flows) == AddAll(<<>>, [i \in DOMAIN flows |-> flows[i].category])

getTransportFlows(device) ==
  IF AddAll(<<>>, Flatten([i \in DOMAIN device.protocols |->
                             protocolToFlow(toLowerCase(device.protocols[i]))])) # <<>>
    THEN AddAll(<<>>, Flatten([i \in DOMAIN device.protocols |->
                                 protocolToFlow(toLowerCase(device.protocols[i]))]))
    ELSE AddAll(<<>>, Flatten([i \in DOMAIN device.openPorts |-> portToFlow(device.openPorts[i])]))

\* lib/macUtils formatMac: the whole address, or its shortened form
formatMac(localId, showFullMac) ==
  IF showFullMac THEN Entry("mac", localId) ELSE Entry("macShort", localId)

\* t(`transportFlows.${flow}`, { defaultValue: flow })
flowEntries(flows) == [i \in DOMAIN slice(flows, 2) |-> Entry("flow", flows[i])]

\* portToService[p] || `:${p}`
portEntry(p) ==
  IF portToService(p) # <<>> THEN Entry("service", portToService(p)[1])
  ELSE Entry("port", ToString(p))

getDeviceLabel(device, activeLayer, flows, showFullMac) ==
  CASE activeLayer = "link" -> <<formatMac(device.localId, showFullMac)>>
    [] activeLayer = "network" -> <<Entry("ip", device.ip)>>
    [] activeLayer = "transport" ->
         IF getFlowCategories(flows) # <<>> THEN flowEntries(getFlowCategories(flows))
         ELSE IF getTransportFlows(device) # <<>> THEN flowEntries(getTransportFlows(device))
         ELSE IF device.openPorts = <<>> THEN Dash
         ELSE [i \in DOMAIN slice(device.openPorts, 2) |-> portEntry(device.openPorts[i])]
    [] activeLayer = "application" ->
         IF flows # <<>>
           THEN [i \in DOMAIN slice(flows, 2) |-> Entry("destination", flows[i].dstLabel)]
         ELSE IF device.protocols = <<>> THEN Dash
         ELSE [i \in DOMAIN slice(device.protocols, 2) |-> Entry("protocol", device.protocols[i])]
    [] OTHER -> <<Entry("label", device.label)>>

\* a device as the label function reads it
LabelDevice(openPorts, protocols) ==
  [label |-> "Device", localId |-> "AA:BB:CC:DD:EE:FF", ip |-> "192.168.1.20",
   openPorts |-> openPorts, protocols |-> protocols]

Flow(dstLabel, category) == [dstLabel |-> dstLabel, category |-> category]

\* a DeviceNode that has rendered: its props and its label
LabelView(device, activeLayer, flows, showFullMac) ==
  [device |-> device, activeLayer |-> activeLayer, flows |-> flows, showFullMac |-> showFullMac,
   rendered |-> TRUE, label |-> getDeviceLabel(device, activeLayer, flows, showFullMac)]

\* a DeviceNode before its first render
LabelPending(device, activeLayer, flows, showFullMac) ==
  [device |-> device, activeLayer |-> activeLayer, flows |-> flows, showFullMac |-> showFullMac,
   rendered |-> FALSE, label |-> <<>>]

\* the DeviceNode of the other specifications, never rendered there
LabelIdle == LabelPending(LabelDevice(<<>>, <<>>), "network", <<>>, TRUE)

\* the DeviceNodes that are mounted (activeLayer is "network" at first)
LabelViews ==
  {LabelPending(LabelDevice(ports, protocols), "network", flows, full) :
     ports \in SeqsUpTo({22, 443, 8080}, MaxPorts),
     protocols \in SeqsUpTo({"HTTPS", "mDNS", "SSH"}, MaxProtocols),
     flows \in {<<>>, <<Flow("example.com", "web")>>,
                <<Flow("cdn.example", "web"), Flow("tv.example", "video"),
                  Flow("vpn.example", "remote")>>},
     full \in BOOLEAN}

(***************************************************************************)
(* client/src/components/NetworkCanvas.tsx: devicePositions                *)
(***************************************************************************)
\* most devices of a scenario that is laid out
MaxDevices == 4

centerX == 400
centerY == 350

\* zoneRadii[zone] || 140
zoneRadii(zone) ==
  CASE zone = "main" -> 140
    [] zone = "guest" -> 220
    [] zone = "iot" -> 300
    [] OTHER -> 140

zoneOfGuestFallback(scenario, device) ==
  IF \E j \in DOMAIN scenario.networks : scenario.networks[j].id = device.networkId
    THEN scenario.networks[Min({j \in DOMAIN scenario.networks :
                                  scenario.networks[j].id = device.networkId})].zone
    ELSE "guest"

\* scenario.networks.find(n => n.id === device.networkId)?.zone || "main"
zoneOf(scenario, device) ==
  IF \E j \in DOMAIN scenario.networks : scenario.networks[j].id = device.networkId
    THEN scenario.networks[Min({j \in DOMAIN scenario.networks :
                                  scenario.networks[j].id = device.networkId})].zone
    ELSE "main"

\* devicesByZone[zone]: the devices that are no router and lie in the zone, in scenario order
devicesByZone(scenario, zone) ==
  SelectSeqBy(scenario.devices,
              [d \in Range(scenario.devices) |-> d.type # "router" /\ zoneOf(scenario, d) = zone])

\* a point of the canvas: (x, y) = (cx, cy) + radius * (cos a, sin a) with the angle a
\* equal to turnNum / turnDen of a full turn (2 * PI), y growing downwards
Position(zone, radius, turnNum, turnDen) ==
  [zone |-> zone, cx |-> centerX, cy |-> centerY, radius |-> radius,
   turnNum |-> turnNum, turnDen |-> turnDen]

\* angle = startAngle + index * angleStep, startAngle = -PI / 2,
\* angleStep = 2 * PI / Math.max(devices.length, 1); in quarters of a step
ringPosition(zone, index, count) ==
  Position(zone, zoneRadii(zone), 4 * index - (IF count > 1 THEN count ELSE 1),
           4 * (IF count > 1 THEN count ELSE 1))

\* positions.set(router.id, { x: centerX, y: centerY, zone: "main" }) for the first router
routerEntries(scenario) ==
  IF \E j \in DOMAIN scenario.devices : scenario.devices[j].type = "router"
    THEN <<[id |-> scenario.devices[Min({j \in DOMAIN scenario.devices :
                                           scenario.devices[j].type = "router"})].id,
            pos |-> Position("main", 0, 0, 1)]>>
    ELSE <<>>

\* the positions.set calls of one zone
ringEntries(devices, zone) ==
  [i \in DOMAIN devices |-> [id |-> devices[i].id, pos |-> ringPosition(zone, i - 1, Len(devices))]]

RECURSIVE SetAll(_, _)
\* Map.prototype.set for each entry, in order
SetAll(positions, entries) ==
  IF entries = <<>> THEN positions
  ELSE SetAll([k \in DOMAIN positions \cup {Head(entries).id} |->
                 IF k = Head(entries).id THEN Head(entries).pos ELSE positions[k]],
              Tail(entries))

devicePositions(scenario) ==
  SetAll(<<>>, routerEntries(scenario)
                 \o ringEntries(devicesByZone(scenario, "main"), "main")
                 \o ringEntries(devicesByZone(scenario, "guest"), "guest")
                 \o ringEntries(devicesByZone(scenario, "iot"), "iot"))

\* the NetworkCanvas of a scenario: the prop and the memo computed from it
OrbitView(scenario) ==
  [scenario |-> scenario, rendered |-> TRUE, positions |-> devicePositions(scenario)]

\* the NetworkCanvas before its first render
OrbitPending(scenario) == [scenario |-> scenario, rendered |-> FALSE, positions |-> <<>>]

DeviceIds == <<"d1", "d2", "d3", "d4", "d5", "d6">>

OrbitNetworks == <<Net("n_main", "main"), Net("n_guest", "guest"), Net("n_iot", "iot")>>

\* device i of a scenario: its id, its type and the network it names
OrbitDevice(i, kind) == [id |-> DeviceIds[i], type |-> kind[1], networkId |-> kind[2]]

\* scenarios handed to the canvas: devices with distinct ids, each a router or not,
\* on one of the networks or on a network the scenario does not have
OrbitScenarios ==
  {[networks |-> OrbitNetworks, devices |-> [i \in DOMAIN kinds |-> OrbitDevice(i, kinds[i])]] :
     kinds \in SeqsUpTo({"router", "laptop"} \X {"n_main", "n_guest", "n_iot", "n_gone"},
                        MaxDevices)}

\* the canvas of the other specifications, never rendered there
OrbitIdle == OrbitPending([networks |-> <<>>, devices |-> <<>>])

(***************************************************************************)
(* One render: a handler, then the effects it triggers                     *)
(***************************************************************************)
\* cap of the actionsResetKey counter
MaxResets == 2

\* what a handler starts from: the state of the last render (no click or key press is running yet)
Cur == [tour |-> tour, home |-> [home EXCEPT !.clicked = None, !.pressed = NoKey],
        acts |-> [acts EXCEPT !.reported = <<>>], notif |-> notif,
        cache |-> cache]

Settle(old, p) ==
  LET p1 == [p EXCEPT !.tour = VisitEffect(old.tour, GatingEffect(old.tour, p.tour))]
      p2 == HomeEffects(p1)
      p3 == ActsEffects(old, p2)
      p4 == ActiveTaskEffect(p3)
  IN NotifEffects(old, p4)

\* the persistence effects of OnboardingProvider and Home
Persist(p) ==
  [onboarding |-> TourState(p.tour), focusMode |-> p.home.focusMode,
   suppressUnknown |-> p.home.suppressUnknownScenarios]

Commit(p) ==
  \E s \in {Settle(Cur, p)} :
  /\ s.home.actionsResetKey <= MaxResets
  /\ tour' = s.tour
  /\ home' = s.home
  /\ acts' = s.acts
  /\ notif' = s.notif
  /\ cache' = s.cache
  /\ localStore' = Persist(s)
  /\ UNCHANGED <<apiVars, canvasVars, toolVars>>

\* the page as mounted from localStorage, before any query has answered
Mounted(store) ==
  [tour |-> TourMount(store.onboarding), home |-> HomeMount(store),
   acts |-> ActsUnmounted, notif |-> NotifUnmounted,
   cache |-> [list |-> FALSE, fetched |-> {}]]

\* localStorage of a first visit
FreshStore == [onboarding |-> FreshOnboarding, focusMode |-> TRUE, suppressUnknown |-> {}]

\* localStorage of a visitor who finished the tour and left focus mode
ReturningStore == [onboarding |-> [completed |-> TRUE, currentStep |-> 17, started |-> TRUE],
                   focusMode |-> FALSE, suppressUnknown |-> {}]

PageInitFrom(store) ==
  /\ tour = Mounted(store).tour
  /\ home = Mounted(store).home
  /\ acts = Mounted(store).acts
  /\ notif = Mounted(store).notif
  /\ cache = Mounted(store).cache
  /\ localStore = store

PageInit == PageInitFrom(FreshStore)

(***************************************************************************)
(* Actions: queries, timers, the user                                      *)
(***************************************************************************)
\* useQuery(["/api/scenarios"]) answers
ListLoaded ==
  /\ ~cache.list
  /\ Commit([Cur EXCEPT !.cache.list = TRUE])

\* useQuery(["/api/scenarios", selectedScenarioId]) answers
ScenarioLoaded ==
  /\ home.selectedScenarioId # NoId
  /\ \A s \in cache.fetched : s.id # home.selectedScenarioId
  /\ Commit([Cur EXCEPT !.cache.fetched = @ \cup getScenarioById(scenarios, home.selectedScenarioId)])

\* the browser reloads the page
Reload == 
  /\ tour' = Mounted(localStore).tour
  /\ home' = Mounted(localStore).home
  /\ acts' = Mounted(localStore).acts
  /\ notif' = Mounted(localStore).notif
  /\ cache' = Mounted(localStore).cache
  /\ UNCHANGED <<localStore, apiVars, canvasVars, toolVars>>

AutoStartTimer ==
  /\ autoStartPending(tour)
  /\ Commit([Cur EXCEPT !.tour = autoStartTimer(@)])

ClickNext ==
  /\ nextEnabled(tour)
  /\ Commit([Cur EXCEPT !.tour = nextStep(@)])

ClickPrev ==
  /\ overlayShown(tour) /\ showPrev(tour)
  /\ Commit([Cur EXCEPT !.tour = prevStep(@)])

ClickSkip ==
  /\ overlayShown(tour) /\ showSkip(tour)
  /\ Commit([Cur EXCEPT !.tour = skipOnboarding(@)])

ReplayTour == Commit([Cur EXCEPT !.tour = restartOnboarding(@)])

SelectScenario ==
  \E id \in Range(SummaryIds) :
    /\ cache.list
    /\ Commit(selectorHandleSelect(Cur, id))

ChangeLayer == \E l \in Range(LayerModes) : Commit(gogglesHandleLayerChange(Cur, l))

\* a click on a device of the map or the table
SelectDevice ==
  \E i \in DOMAIN activeScenario(Cur).devices :
    /\ ~home.showComparison
    /\ ~unknownModalVisible(Cur)
    /\ Commit(handleDeviceSelect(Cur, activeScenario(Cur).devices[i].id))

\* keys a user presses: the shortcuts, their neighbours and the keys of other controls
Keys == {"1", "2", "3", "4", "5", "r", "R", "Escape", "Enter"}

KeyEvents ==
  {KeyEvent(k, c, m, tg) : k \in Keys, c \in BOOLEAN, m \in BOOLEAN,
                            tg \in {"BODY", "INPUT", "TEXTAREA"}}

KeyDown == \E e \in KeyEvents : Commit(handleKeyDown(Cur, e))

ClickReset == Commit(handleReset(Cur))

SetFilters ==
  \E f \in FilterChoices :
    /\ activeScenario(Cur) # NoScenario /\ ~home.focusMode
    /\ Commit([Cur EXCEPT !.home.filters = f])

ViewMap == Commit([Cur EXCEPT !.home.viewMode = "map", !.home.showComparison = FALSE])

ViewTable ==
  /\ ~disableAdvancedViews(Cur)
  /\ Commit([Cur EXCEPT !.home.viewMode = "table", !.home.showComparison = FALSE])

ViewCompare ==
  /\ ~disableAdvancedViews(Cur) /\ cache.list
  /\ Commit([Cur EXCEPT !.home.showComparison = TRUE])

CloseComparison ==
  /\ home.showComparison
  /\ Commit([Cur EXCEPT !.home.showComparison = FALSE])

ToggleFocusMode == Commit(handleToggleFocusMode(Cur, ~home.focusMode))

TogglePacketJourney ==
  /\ \E d \in selectedDevice(Cur) : d.type # "router"
  /\ Commit(handleTogglePacketJourney(Cur))

ImportScenario ==
  \E s \in ImportableScenarios :
    /\ ~home.focusMode /\ ~tour.isActive
    /\ Commit(handleImportScenario(Cur, s))

SuppressUnknown ==
  /\ unknownModalVisible(Cur) \/ showInlineUnknown(Cur)
  /\ Commit(handleSuppressUnknown(Cur))

ShowUnknownDetails ==
  /\ showInlineUnknown(Cur)
  /\ Commit(handleShowUnknownDetails(Cur))

CloseUnknownModal ==
  /\ unknownModalVisible(Cur)
  /\ Commit([Cur EXCEPT !.home.showUnknownModal = FALSE])

\* the 5 s timer of the actionOutcome effect
OutcomeTimer ==
  /\ home.actionOutcome # NoOutcome
  /\ Commit([Cur EXCEPT !.home.actionOutcome = NoOutcome])

taskCardShown == acts.mounted /\ ~(acts.showDebrief /\ isComplete(Cur))

CompleteTask ==
  /\ taskCardShown /\ acts.status # "success"
  /\ Commit(handleComplete(Cur))

NextTask ==
  /\ taskCardShown /\ acts.status = "success"
  /\ Commit(handleNextTask(Cur))

TryAgain ==
  /\ taskCardShown /\ acts.status = "failure"
  /\ Commit(handleTryAgain(Cur))

RestartTasks ==
  /\ acts.mounted /\ acts.showDebrief /\ isComplete(Cur)
  /\ Commit(handleRestart(Cur))

NotifTimer ==
  /\ notif.mounted /\ onEnterEvents(Cur) # <<>>
  /\ Commit(onEnterTimer(Cur))

DismissNotification ==
  /\ notif.mounted /\ notif.activeEvent # NoEvent
  /\ Commit(handleDismiss(Cur))


(***************************************************************************)
(* scripts/i18n-validate.js                                                *)
(***************************************************************************)
\* most members a JSON object of a locale file has
MaxEntries == 2

\* JSON values of a locale file.  A string is a sequence of tokens (words and {{var}}
\* placeholders); a key is a sequence of tokens too, a plural suffix being one token
JString(tokens) == [type |-> "string", tokens |-> tokens, members |-> <<>>]
JNull == [type |-> "null", tokens |-> <<>>, members |-> <<>>]
JObject(members) == [type |-> "object", tokens |-> <<>>, members |-> members]

\* what reading an inherited property of a plain object gives: a function
JInherited == [type |-> "function", tokens |-> <<>>, members |-> <<>>]

\* a locale file fs.readFileSync or JSON.parse throws on
Unreadable == [type |-> "unreadable", tokens |-> <<>>, members |-> <<>>]

REQUIRED_LOCALES == <<"en", "lv", "ru">>
BASE_LOCALE == "en"

\* the set of <<flattened key, value>> pairs flattenObject collects
RECURSIVE flattenPairs(_, _)
flattenPairs(members, prefix) ==
  LET fullKey(key) == IF prefix # <<>> THEN prefix \o <<".">> \o key ELSE key
      nested == {key \in DOMAIN members : members[key].type = "object"}
  IN {<<fullKey(key), members[key]>> : key \in DOMAIN members \ nested}
       \cup UNION {flattenPairs(members[key].members, fullKey(key)) : key \in nested}

\* flattenObject(obj): the own properties of the result
flattenObject(obj) ==
  LET pairs == flattenPairs(obj.members, <<>>)
  IN [key \in {p[1] : p \in pairs} |-> CHOOSE v \in {p[2] : p \in pairs} : <<key, v>> \in pairs]

\* the {{...}} tokens, in the order Array.prototype.sort gives them
Placeholders == <<"{{m}}", "{{n}}">>

\* text.match(/\{\{[^}]+\}\}/g).sort(), [] for a value that is not a string
extractPlaceholders(value) ==
  IF value.type # "string" THEN <<>>
  ELSE SortSeq(SelectSeq(value.tokens, LAMBDA tk : tk \in Range(Placeholders)),
               LAMBDA a, b : \E i, j \in DOMAIN Placeholders :
                               Placeholders[i] = a /\ Placeholders[j] = b /\ i < j)

PLURAL_SUFFIXES == <<"_zero", "_one", "_two", "_few", "_many", "_other">>

endsWith(key, suffix) == Len(key) >= 1 /\ key[Len(key)] = suffix

isPluralKey(key) == \E i \in DOMAIN PLURAL_SUFFIXES : endsWith(key, PLURAL_SUFFIXES[i])

\* key.slice(0, -suffix.length) for the first suffix the key ends with
getBasePluralKey(key) == IF isPluralKey(key) THEN SubSeq(key, 1, Len(key) - 1) ELSE key

\* the property names every plain object inherits from Object.prototype
ObjectPrototypeKeys == {<<"constructor">>, <<"toString">>, <<"valueOf">>, <<"hasOwnProperty">>}

\* key in keys
keyIn(key, keys) == key \in DOMAIN keys \/ key \in ObjectPrototypeKeys

\* keys[key]
valueOf(keys, key) == IF key \in DOMAIN keys THEN keys[key] ELSE JInherited

pluralBases(keys) == {getBasePluralKey(key) : key \in {k \in DOMAIN keys : isPluralKey(k)}}

ErrorOf(type, keys) == IF keys = {} THEN <<>> ELSE <<[type |-> type, keys |-> keys]>>

validateKeyParity(baseKeys, targetKeys) ==
  LET basePluralBases == pluralBases(baseKeys)
      targetPluralBases == pluralBases(targetKeys)
      missingKeys == {key \in DOMAIN baseKeys :
                        /\ ~keyIn(key, targetKeys)
                        /\ ~(isPluralKey(key) /\ getBasePluralKey(key) \in targetPluralBases)}
      extraKeys == {key \in DOMAIN targetKeys :
                      /\ ~keyIn(key, baseKeys)
                      /\ ~(isPluralKey(key) /\ getBasePluralKey(key) \in basePluralBases)}
  IN ErrorOf("missing_keys", missingKeys) \o ErrorOf("extra_keys", extraKeys)

validateEmptyValues(keys) ==
  ErrorOf("empty_values",
          {key \in DOMAIN keys : keys[key] = JString(<<>>) \/ keys[key].type = "null"})

validatePlaceholders(baseKeys, targetKeys) ==
  ErrorOf("placeholder_mismatch",
          {key \in DOMAIN baseKeys :
             /\ keyIn(key, targetKeys)
             /\ extractPlaceholders(baseKeys[key])
                  # extractPlaceholders(valueOf(targetKeys, key))})

\* the errors main collects for one target locale
localeErrors(baseKeys, targetKeys) ==
  validateKeyParity(baseKeys, targetKeys)
    \o validateEmptyValues(targetKeys)
    \o validatePlaceholders(baseKeys, targetKeys)

\* main: the status the process exits with, for the three locale files as loadLocale
\* finds them
main(files) ==
  IF \E i \in DOMAIN REQUIRED_LOCALES : files[REQUIRED_LOCALES[i]] = Unreadable
    THEN 1
    ELSE LET flattenedLocales == [l \in Range(REQUIRED_LOCALES) |-> flattenObject(files[l])]
             targets == SelectSeq(REQUIRED_LOCALES, LAMBDA l : l # BASE_LOCALE)
             allErrors == [i \in DOMAIN targets |->
                             localeErrors(flattenedLocales[BASE_LOCALE],
                                          flattenedLocales[targets[i]])]
         IN IF \A i \in DOMAIN targets : allErrors[i] = <<>> THEN 0 ELSE 1

\* values a translation has in the locale files under study
LocaleLeaves == {JString(<<"hi">>), JString(<<>>), JNull, JString(<<"hi", "{{n}}">>)}

\* nested groups of a locale file
LocaleGroups == {JObject(m) : m \in UNION {[S -> LocaleLeaves] : S \in SUBSET {<<"t">>}}}

\* locale files: up to MaxEntries members out of two plural forms and a group
LocaleFiles ==
  {Unreadable} \cup
  {JObject(m) : m \in
     UNION {{f \in [S -> LocaleLeaves \cup LocaleGroups] :
               \A key \in S : (f[key].type = "object") <=> (key = <<"g">>)} :
            S \in {T \in SUBSET {<<"n", "_one">>, <<"n", "_other">>, <<"g">>} :
                     Cardinality(T) <= MaxEntries}}}

\* a run of the script: the files it finds, whether it has exited, and the exit status
ValidatorRun(files, exited, status) == [files |-> files, exited |-> exited, status |-> status]

ValidatorIdle == ValidatorRun([l \in Range(REQUIRED_LOCALES) |-> Unreadable], FALSE, 0)

(***************************************************************************)
(* JSON text and values: JSON.stringify(value, null, 2) and JSON.parse     *)
(***************************************************************************)
\* A JavaScript value that JSON can carry.  A string is kept as a sequence of strings
\* (a scenario id is its characters, any other string the one-element sequence of
\* itself); items holds the elements of an array (key <<>>) or the members of an
\* object in insertion order
JValue(type, str, num, bool, items) ==
  [type |-> type, str |-> str, num |-> num, bool |-> bool, items |-> items]

JsNull == JValue("null", <<>>, 0, FALSE, <<>>)
\* the value of a property that is undefined
JsUndefined == JValue("undefined", <<>>, 0, FALSE, <<>>)
JsBool(b) == JValue("boolean", <<>>, 0, b, <<>>)
JsNumber(n) == JValue("number", <<>>, n, FALSE, <<>>)
JsString(s) == JValue("string", s, 0, FALSE, <<>>)
JsArray(items) == JValue("array", <<>>, 0, FALSE, items)
JsObject(items) == JValue("object", <<>>, 0, FALSE, items)

Item(key, value) == [key |-> key, value |-> value]

\* a token of a JSON text; "ws" is a run of white space
Tok(kind, str, num) == [kind |-> kind, str |-> str, num |-> num]

Sym(kind) == Tok(kind, <<>>, 0)

RECURSIVE stringify(_)
RECURSIVE stringifyItems(_, _, _)

\* the elements or members from position i on, separated by commas and line breaks
stringifyItems(items, isObject, i) ==
  LET head == IF isObject
                THEN <<Tok("string", items[i].key, 0), Sym(":"), Sym("ws")>>
                ELSE <<>>
      this == head \o stringify(items[i].value)
  IN IF i = Len(items) THEN this
     ELSE this \o <<Sym(","), Sym("ws")>> \o stringifyItems(items, isObject, i + 1)

\* the members JSON.stringify writes: a member of value undefined is left out
serializable(items) == SelectSeq(items, LAMBDA m : m.value.type # "undefined")

\* JSON.stringify(value, null, 2); undefined as an array element is written as null
stringify(v) ==
  CASE v.type \in {"null", "undefined"} -> <<Sym("null")>>
    [] v.type = "boolean" -> <<Sym(IF v.bool THEN "true" ELSE "false")>>
    [] v.type = "number" -> <<Tok("number", <<>>, v.num)>>
    [] v.type = "string" -> <<Tok("string", v.str, 0)>>
    [] v.type = "array" ->
         IF v.items = <<>> THEN <<Sym("["), Sym("]")>>
         ELSE <<Sym("["), Sym("ws")>> \o stringifyItems(v.items, FALSE, 1)
                \o <<Sym("ws"), Sym("]")>>
    [] v.type = "object" ->
         IF serializable(v.items) = <<>> THEN <<Sym("{"), Sym("}")>>
         ELSE <<Sym("{"), Sym("ws")>> \o stringifyItems(serializable(v.items), TRUE, 1)
                \o <<Sym("ws"), Sym("}")>>

\* the outcome of a parse: ok is FALSE for a SyntaxError; next is the position after
\* the value
Parsed(ok, value, next) == [ok |-> ok, value |-> value, next |-> next]

SyntaxError == Parsed(FALSE, JsNull, 0)

RECURSIVE skipWs(_, _)
skipWs(text, i) ==
  IF i <= Len(text) /\ text[i].kind = "ws" THEN skipWs(text, i + 1) ELSE i

kindAt(text, i) == IF i <= Len(text) THEN text[i].kind ELSE "end"

\* obj[key] = value: a repeated key keeps its place and takes the last value
putItem(items, key, value, isObject) ==
  IF isObject /\ \E k \in DOMAIN items : items[k].key = key
    THEN [k \in DOMAIN items |-> IF items[k].key = key THEN Item(key, value) ELSE items[k]]
    ELSE Append(items, Item(key, value))

RECURSIVE parseValue(_, _)
RECURSIVE parseItems(_, _, _, _)

\* the elements of an array or the members of an object, from the item at i0 on
parseItems(text, i0, isObject, acc) ==
  LET i == skipWs(text, i0)
      colon == skipWs(text, i + 1)
      keyOk == ~isObject \/ (kindAt(text, i) = "string" /\ kindAt(text, colon) = ":")
      key == IF isObject THEN text[i].str ELSE <<>>
      r == parseValue(text, IF isObject THEN colon + 1 ELSE i)
      k == skipWs(text, r.next)
      items == putItem(acc, key, r.value, isObject)
  IN IF ~keyOk THEN SyntaxError
     ELSE IF ~r.ok THEN SyntaxError
     ELSE IF kindAt(text, k) = "," THEN parseItems(text, k + 1, isObject, items)
     ELSE IF kindAt(text, k) = (IF isObject THEN "}" ELSE "]")
       THEN Parsed(TRUE, IF isObject THEN JsObject(items) ELSE JsArray(items), k + 1)
     ELSE SyntaxError

parseValue(text, i0) ==
  LET i == skipWs(text, i0)
      kind == kindAt(text, i)
      first == skipWs(text, i + 1)
  IN CASE kind = "null" -> Parsed(TRUE, JsNull, i + 1)
       [] kind = "true" -> Parsed(TRUE, JsBool(TRUE), i + 1)
       [] kind = "false" -> Parsed(TRUE, JsBool(FALSE), i + 1)
       [] kind = "number" -> Parsed(TRUE, JsNumber(text[i].num), i + 1)
       [] kind = "string" -> Parsed(TRUE, JsString(text[i].str), i + 1)
       [] kind = "[" ->
            IF kindAt(text, first) = "]" THEN Parsed(TRUE, JsArray(<<>>), first + 1)
            ELSE parseItems(text, i + 1, FALSE, <<>>)
       [] kind = "{" ->
            IF kindAt(text, first) = "}" THEN Parsed(TRUE, JsObject(<<>>), first + 1)
            ELSE parseItems(text, i + 1, TRUE, <<>>)
       [] OTHER -> SyntaxError

\* JSON.parse(text): one value and nothing but white space after it
jsonParse(text) ==
  LET r == parseValue(text, 1)
  IN IF r.ok /\ skipWs(text, r.next) > Len(text) THEN r ELSE SyntaxError

\* String.prototype.trim on a text
RECURSIVE trimText(_)
trimText(text) ==
  IF text # <<>> /\ Head(text).kind = "ws" THEN trimText(Tail(text))
  ELSE IF text # <<>> /\ text[Len(text)].kind = "ws"
    THEN trimText(SubSeq(text, 1, Len(text) - 1))
  ELSE text

(***************************************************************************)
(* shared/schema.ts: the zod schemas, and what safeParse does with a value *)
(***************************************************************************)
zString == [kind |-> "string"]
zNumber == [kind |-> "number"]
zEnum(values) == [kind |-> "enum", values |-> {<<e>> : e \in values}]
zArray(element) == [kind |-> "array", element |-> element]
zObject(fields) == [kind |-> "object", fields |-> fields]

\* a key of z.object: mode is "required", "optional" (.optional()) or "default"
\* (.default([]))
Field(key, schema, mode) == [key |-> <<key>>, schema |-> schema, mode |-> mode]

deviceTypeSchema ==
  zEnum({"router", "server", "laptop", "phone", "tablet", "camera", "smarttv", "speaker",
         "thermostat", "printer", "gaming", "unknown"})

\* the enum of riskFlagSchema, in its order
RiskFlags ==
  <<"iot_device", "default_password", "outdated_firmware", "unknown_device",
    "unencrypted_traffic", "forgotten_device">>

riskFlagSchema == zEnum(Range(RiskFlags))

scenarioTaskTargetSchema ==
  zObject(<<Field("type", zEnum({"device", "network", "none"}), "required"),
            Field("id", zString, "optional")>>)

\* of each schema the keys the scenario records of this module carry
scenarioTaskSchema ==
  zObject(<<Field("id", zString, "required"),
            Field("target", scenarioTaskTargetSchema, "required")>>)

networkSchema ==
  zObject(<<Field("id", zString, "required"),
            Field("zone", zEnum({"main", "guest", "iot"}), "required")>>)

deviceSchema ==
  zObject(<<Field("id", zString, "required"),
            Field("type", deviceTypeSchema, "required"),
            Field("networkId", zString, "required"),
            Field("riskFlags", zArray(riskFlagSchema), "required"),
            Field("openPorts", zArray(zNumber), "optional"),
            Field("protocols", zArray(zString), "optional")>>)

eventSchema ==
  zObject(<<Field("id", zString, "required"),
            Field("trigger", zEnum({"onEnter", "onDeviceClick", "onLayerChange"}), "required"),
            Field("deviceId", zString, "optional")>>)

scenarioSchema ==
  zObject(<<Field("id", zString, "required"),
            Field("networks", zArray(networkSchema), "required"),
            Field("devices", zArray(deviceSchema), "required"),
            Field("events", zArray(eventSchema), "required"),
            Field("scenarioTasks", zArray(scenarioTaskSchema), "default")>>)

\* obj[key]: the set holding the value, empty for undefined
member(v, key) ==
  {v.items[k].value : k \in {k \in DOMAIN v.items : /\ v.items[k].key = key
                                                     /\ v.items[k].value.type # "undefined"}}

\* the outcome of safeParse: success and data
ZodResult(success, data) == [success |-> success, data |-> data]

ZodError == ZodResult(FALSE, JsNull)

RECURSIVE safeParse(_, _)
RECURSIVE safeParseElements(_, _, _, _)
RECURSIVE safeParseFields(_, _, _, _)

\* the elements of an array from position i on
safeParseElements(schema, items, i, acc) ==
  IF i > Len(items) THEN ZodResult(TRUE, JsArray(acc))
  ELSE LET r == safeParse(schema, items[i].value)
       IN IF r.success THEN safeParseElements(schema, items, i + 1, Append(acc, Item(<<>>, r.data)))
          ELSE ZodError

\* the keys of the shape from position i on: unknown keys of the value are stripped
safeParseFields(fields, v, i, acc) ==
  IF i > Len(fields) THEN ZodResult(TRUE, JsObject(acc))
  ELSE LET f == fields[i]
           given == member(v, f.key)
       IN IF given = {}
            THEN CASE f.mode = "required" -> ZodError
                   [] f.mode = "optional" -> safeParseFields(fields, v, i + 1, acc)
                   [] f.mode = "default" ->
                        safeParseFields(fields, v, i + 1, Append(acc, Item(f.key, JsArray(<<>>))))
            ELSE LET r == safeParse(f.schema, CHOOSE x \in given : TRUE)
                 IN IF r.success
                      THEN safeParseFields(fields, v, i + 1, Append(acc, Item(f.key, r.data)))
                      ELSE ZodError

\* schema.safeParse(v)
safeParse(schema, v) ==
  CASE schema.kind = "string" -> IF v.type = "string" THEN ZodResult(TRUE, v) ELSE ZodError
    [] schema.kind = "number" -> IF v.type = "number" THEN ZodResult(TRUE, v) ELSE ZodError
    [] schema.kind = "enum" ->
         IF v.type = "string" /\ v.str \in schema.values THEN ZodResult(TRUE, v) ELSE ZodError
    [] schema.kind = "array" ->
         IF v.type = "array" THEN safeParseElements(schema.element, v.items, 1, <<>>)
         ELSE ZodError
    [] schema.kind = "object" ->
         IF v.type = "object" THEN safeParseFields(schema.fields, v, 1, <<>>) ELSE ZodError

(***************************************************************************)
(* The scenario records of this module as JavaScript objects               *)
(***************************************************************************)
JsText(s) == JsString(<<s>>)

JsList(values) == JsArray([k \in DOMAIN values |-> Item(<<>>, values[k])])

\* a property that is undefined when the record holds None
JsOptionalText(s) == IF s = None THEN JsUndefined ELSE JsText(s)

jsonOfNetwork(n) ==
  JsObject(<<Item(<<"id">>, JsText(n.id)), Item(<<"zone">>, JsText(n.zone))>>)

jsonOfDevice(d) ==
  JsObject(<<Item(<<"id">>, JsText(d.id)), Item(<<"type">>, JsText(d.type)),
             Item(<<"networkId">>, JsText(d.networkId)),
             Item(<<"riskFlags">>,
                  JsList([k \in DOMAIN SelectSeq(RiskFlags, LAMBDA f : f \in d.riskFlags) |->
                            JsText(SelectSeq(RiskFlags, LAMBDA f : f \in d.riskFlags)[k])])),
             Item(<<"openPorts">>, JsList([k \in DOMAIN d.openPorts |-> JsNumber(d.openPorts[k])])),
             Item(<<"protocols">>, JsList([k \in DOMAIN d.protocols |-> JsText(d.protocols[k])]))>>)

jsonOfEvent(e) ==
  JsObject(<<Item(<<"id">>, JsText(e.id)), Item(<<"trigger">>, JsText(e.trigger)),
             Item(<<"deviceId">>, JsOptionalText(e.deviceId))>>)

jsonOfTask(t) ==
  JsObject(<<Item(<<"id">>, JsText(t.id)),
             Item(<<"target">>,
                  JsObject(<<Item(<<"type">>, JsText(t.target.type)),
                             Item(<<"id">>, JsOptionalText(t.target.id))>>))>>)

\* the scenario object the page holds
jsonOfScenario(s) ==
  JsObject(<<Item(<<"id">>, JsString(s.id)),
             Item(<<"networks">>, JsList([k \in DOMAIN s.networks |-> jsonOfNetwork(s.networks[k])])),
             Item(<<"devices">>, JsList([k \in DOMAIN s.devices |-> jsonOfDevice(s.devices[k])])),
             Item(<<"events">>, JsList([k \in DOMAIN s.events |-> jsonOfEvent(s.events[k])])),
             Item(<<"scenarioTasks">>,
                  JsList([k \in DOMAIN s.scenarioTasks |-> jsonOfTask(s.scenarioTasks[k])]))>>)

\* obj[key] of a string property, None for undefined
textOf(v, key) == IF member(v, key) = {} THEN None ELSE (CHOOSE x \in member(v, key) : TRUE).str[1]

\* obj[key] of an array property, [] for undefined
listOf(v, key) == IF member(v, key) = {} THEN <<>> ELSE (CHOOSE x \in member(v, key) : TRUE).items

\* the record of a value that scenarioSchema accepted
scenarioOf(v) ==
  [id |-> (CHOOSE x \in member(v, <<"id">>) : TRUE).str,
   networks |-> [k \in DOMAIN listOf(v, <<"networks">>) |->
                   LET n == listOf(v, <<"networks">>)[k].value
                   IN Net(textOf(n, <<"id">>), textOf(n, <<"zone">>))],
   devices |-> [k \in DOMAIN listOf(v, <<"devices">>) |->
                  LET d == listOf(v, <<"devices">>)[k].value
                  IN Dev(textOf(d, <<"id">>), textOf(d, <<"type">>), textOf(d, <<"networkId">>),
                         {i.value.str[1] : i \in Range(listOf(d, <<"riskFlags">>))},
                         [j \in DOMAIN listOf(d, <<"openPorts">>) |->
                            listOf(d, <<"openPorts">>)[j].value.num],
                         [j \in DOMAIN listOf(d, <<"protocols">>) |->
                            listOf(d, <<"protocols">>)[j].value.str[1]])],
   events |-> [k \in DOMAIN listOf(v, <<"events">>) |->
                 LET e == listOf(v, <<"events">>)[k].value
                 IN Evt(textOf(e, <<"id">>), textOf(e, <<"trigger">>), textOf(e, <<"deviceId">>))],
   scenarioTasks |-> [k \in DOMAIN listOf(v, <<"scenarioTasks">>) |->
                        LET t == listOf(v, <<"scenarioTasks">>)[k].value
                            target == CHOOSE x \in member(t, <<"target">>) : TRUE
                        IN Task(textOf(t, <<"id">>), textOf(target, <<"type">>),
                                textOf(target, <<"id">>))]]

(***************************************************************************)
(* client/src/components/ScenarioExportImport.tsx                          *)
(***************************************************************************)
\* number of timers one life of the component schedules
MaxTimers == 3

\* the outcome of validateScenario: valid and scenario
Validation(valid, scenario) == [valid |-> valid, scenario |-> scenario]

Invalid == Validation(FALSE, NoScenario)

\* validateScenario without the last of its checks
validateScenarioAnyDevices(data) ==
  LET result == safeParse(scenarioSchema, data)
      scenario == scenarioOf(result.data)
  IN IF ~result.success THEN Invalid
     ELSE IF Len(scenario.devices) = 0 THEN Invalid
     ELSE IF Len(scenario.networks) = 0 THEN Invalid
     ELSE Validation(TRUE, scenario)

validateScenario(data) ==
  LET result == safeParse(scenarioSchema, data)
      scenario == scenarioOf(result.data)
  IN IF ~result.success THEN Invalid
     ELSE IF Len(scenario.devices) = 0 THEN Invalid
     ELSE IF Len(scenario.networks) = 0 THEN Invalid
     ELSE IF ~\E k \in DOMAIN scenario.devices : scenario.devices[k].type = "router"
       THEN Invalid
     ELSE Validation(TRUE, scenario)

\* try { JSON.parse(content); validateScenario(parsed) } catch
parseAndValidate(content) ==
  LET parsed == jsonParse(content)
  IN IF parsed.ok THEN validateScenario(parsed.value) ELSE Invalid

\* obj[key] = value
setMember(v, key, value) == JsObject(putItem(v.items, key, value, TRUE))

\* an export that leaves the guided tasks out
exportJsonWithoutTasks(scenario) ==
  IF scenario = NoScenario THEN <<>>
  ELSE stringify(setMember(jsonOfScenario(scenario), <<"scenarioTasks">>, JsUndefined))

\* const exportJson = scenario ? JSON.stringify(scenario, null, 2) : ""
exportJson(scenario) ==
  IF scenario = NoScenario THEN <<>> ELSE stringify(jsonOfScenario(scenario))

\* texts a user pastes or uploads: nothing, a truncated export, a scenario without
\* router, a scenario that passes
ImportTexts ==
  {<<>>,
   SubSeq(exportJson(customScenario), 1, Len(exportJson(customScenario)) - 1),
   exportJson([customScenario EXCEPT !.devices = Tail(@)]),
   exportJson(customScenario)}

\* more of them: white space, JSON that is no scenario, scenarios the schema rejects
\* (no id, a device type outside the enum), scenarios without device or network, and
\* scenarios that pass without scenarioTasks or with a key the schema does not know
PastedTexts ==
  ImportTexts \cup
  {<<Sym("ws")>>,
   <<Sym("null")>>,
   stringify(setMember(jsonOfScenario(customScenario), <<"id">>, JsUndefined)),
   exportJson([customScenario EXCEPT !.devices[2].type = "toaster"]),
   exportJson([customScenario EXCEPT !.devices = <<>>]),
   exportJson([customScenario EXCEPT !.networks = <<>>]),
   stringify(setMember(jsonOfScenario(customScenario), <<"scenarioTasks">>, JsUndefined)),
   stringify(setMember(jsonOfScenario(customScenario), <<"theme">>, JsText("dark")))}

\* useState and useRef initialisers of ScenarioExportImport.
\* timers is the browser's table of pending setTimeout calls; copying and reading are
\* the clipboard write and the file read in flight; onImportCalls and lateCallbacks
\* are history fields: calls of the onImport prop, timer callbacks run after unmount;
\* lastImported is the argument of the last onImport call.  A text is a sequence of
\* tokens; reading is the set holding the content of the file being read
DialogMount ==
  [mounted |-> TRUE, isOpen |-> FALSE, importText |-> <<>>,
   importError |-> FALSE, importSuccess |-> FALSE, copied |-> FALSE,
   timeoutRefs |-> {}, timers |-> {}, nextTimer |-> 1,
   copying |-> FALSE, reading |-> {}, onImportCalls |-> 0, lastImported |-> NoScenario,
   lateCallbacks |-> 0]

DialogIdle == [DialogMount EXCEPT !.mounted = FALSE]

\* const timeout = setTimeout(...); timeoutRefs.current.add(timeout)
setTimeoutAndAdd(d, kind) ==
  [d EXCEPT !.timers = @ \cup {[id |-> d.nextTimer, kind |-> kind]},
            !.timeoutRefs = @ \cup {d.nextTimer},
            !.nextTimer = @ + 1]

\* the useState hooks of the component
StateHooks == {"isOpen", "importText", "importError", "importSuccess", "copied"}

\* a handler's set state calls take d to next: React drops them once the component is
\* unmounted, what the handler did to refs, timers and props stays
setState(d, next) ==
  IF d.mounted THEN next
  ELSE [f \in DOMAIN d |-> IF f \in StateHooks THEN d[f] ELSE next[f]]

\* handleCopy up to its await
handleCopy(d, scenario) == IF scenario = NoScenario THEN d ELSE [d EXCEPT !.copying = TRUE]

\* handleCopy after navigator.clipboard.writeText resolved
handleCopyResolved(d) ==
  setTimeoutAndAdd(setState(d, [d EXCEPT !.copying = FALSE, !.copied = TRUE]), "copied")

\* handleCopy after navigator.clipboard.writeText rejected: a toast only
handleCopyRejected(d) == [d EXCEPT !.copying = FALSE]

\* the part handleImportText and reader.onload share: parse, validate, import
importContent(d, content) ==
  IF parseAndValidate(content).valid
    THEN setTimeoutAndAdd(
           setState(d, [d EXCEPT !.onImportCalls = @ + 1,
                                 !.lastImported = parseAndValidate(content).scenario,
                                 !.importSuccess = TRUE]), "close")
    ELSE setState(d, [d EXCEPT !.importError = TRUE])

handleImportText(d) ==
  LET cleared == [d EXCEPT !.importError = FALSE, !.importSuccess = FALSE]
  IN IF trimText(d.importText) = <<>>
       THEN setState(cleared, [cleared EXCEPT !.importError = TRUE])
       ELSE importContent(cleared, d.importText)

\* handleFileUpload up to reader.readAsText
handleFileUpload(d, content) ==
  [d EXCEPT !.importError = FALSE, !.importSuccess = FALSE, !.reading = {content}]

\* reader.onload
readerOnLoad(d) ==
  LET content == CHOOSE c \in d.reading : TRUE
      loaded == [d EXCEPT !.reading = {}]
  IN IF content = <<>>
       THEN setState(loaded, [loaded EXCEPT !.importError = TRUE])
       ELSE importContent(loaded, content)

\* the callback of a timer
timerCallback(d, timer) ==
  LET fired == [d EXCEPT !.timers = @ \ {timer},
                         !.timeoutRefs = @ \ {timer.id},
                         !.lateCallbacks = IF d.mounted THEN @ ELSE @ + 1]
  IN setState(fired,
              IF timer.kind = "copied"
                THEN [fired EXCEPT !.copied = FALSE]
                ELSE [fired EXCEPT !.isOpen = FALSE, !.importText = <<>>,
                                   !.importSuccess = FALSE])

\* the cleanup of the mount effect: timeouts.forEach(clearTimeout); timeouts.clear()
unmountCleanup(d) ==
  [d EXCEPT !.mounted = FALSE,
            !.timers = {t \in @ : t.id \notin d.timeoutRefs},
            !.timeoutRefs = {}]

(***************************************************************************)
(* client/src/components/DeviceFilter.tsx: useDeviceFilter                 *)
(***************************************************************************)
\* most devices of a filtered list, longest search query
MaxFilterDevices == 2
MaxQuery == 2

\* strings are sequences of characters here; String.prototype.toLowerCase
lowerCase(s) == [i \in DOMAIN s |-> CASE s[i] = "A" -> "a" [] s[i] = "C" -> "c" [] OTHER -> s[i]]

\* String.prototype.trim
RECURSIVE trimStart(_)
trimStart(s) == IF s # <<>> /\ Head(s) = " " THEN trimStart(Tail(s)) ELSE s

RECURSIVE trimEnd(_)
trimEnd(s) == IF s # <<>> /\ s[Len(s)] = " " THEN trimEnd(SubSeq(s, 1, Len(s) - 1)) ELSE s

trim(s) == trimEnd(trimStart(s))

startsWith(s, sub) == Len(sub) <= Len(s) /\ SubSeq(s, 1, Len(sub)) = sub

\* String.prototype.includes
includes(s, sub) ==
  \E i \in 1..(Len(s) + 1) : i + Len(sub) - 1 <= Len(s) /\ SubSeq(s, i, i + Len(sub) - 1) = sub

\* a device as the filter reads it; manufacturer and description are optional: the set
\* of the strings present
FilterDevice(label, ip, localId, type, manufacturer, protocols, description, networkId,
             riskFlags) ==
  [label |-> label, ip |-> ip, localId |-> localId, type |-> type,
   manufacturer |-> manufacturer, protocols |-> protocols, description |-> description,
   networkId |-> networkId, riskFlags |-> riskFlags]

\* the callback of the search filter
matchesQuery(device, query) ==
  \/ includes(lowerCase(device.label), query)
  \/ includes(lowerCase(device.ip), query)
  \/ includes(lowerCase(device.localId), query)
  \/ includes(lowerCase(device.type), query)
  \/ \E m \in device.manufacturer : includes(lowerCase(m), query)
  \/ \E i \in DOMAIN device.protocols : includes(lowerCase(device.protocols[i]), query)
  \/ \E t \in device.description : includes(lowerCase(t), query)

\* the callback of the zone filter: networks.find(...) && networkZones.includes(network.zone)
matchesZone(device, networks, networkZones) ==
  LET hits == {j \in DOMAIN networks : networks[j].id = device.networkId}
  IN hits # {} /\ networks[Min(hits)].zone \in networkZones

useDeviceFilter(devices, networks, filters) ==
  LET query == lowerCase(filters.searchQuery)
      f1 == IF trim(filters.searchQuery) # <<>>
              THEN SelectSeq(devices, LAMBDA d : matchesQuery(d, query)) ELSE devices
      f2 == IF filters.deviceTypes # {}
              THEN SelectSeq(f1, LAMBDA d : d.type \in filters.deviceTypes) ELSE f1
      f3 == IF filters.networkZones # {}
              THEN SelectSeq(f2, LAMBDA d : matchesZone(d, networks, filters.networkZones))
              ELSE f2
  IN IF filters.showRisksOnly THEN SelectSeq(f3, LAMBDA d : d.riskFlags # {}) ELSE f3

\* the memo of a component that calls useDeviceFilter
FilterView(devices, networks, filters) ==
  [devices |-> devices, networks |-> networks, filters |-> filters, rendered |-> TRUE,
   filtered |-> useDeviceFilter(devices, networks, filters)]

FilterPending(devices, networks, filters) ==
  [devices |-> devices, networks |-> networks, filters |-> filters, rendered |-> FALSE,
   filtered |-> <<>>]

FilterIdle == FilterPending(<<>>, <<>>, defaultFilters)

\* devices the filter is tried on: camera "Ca" in the IoT zone with a risk flag, a laptop
\* with manufacturer, protocol and a description, and a camera whose network is gone
FilterPool ==
  {FilterDevice(<<"C", "a">>, <<"1">>, <<"a", "a">>, <<"c", "a", "m">>, {}, <<>>, {},
                "n_iot", {"default_password"}),
   FilterDevice(<<"1">>, <<"1">>, <<"a", "1">>, <<"t", "v">>, {<<"A", "c">>},
                <<<<"C", "1">>>>, {<<"a", " ", "c">>}, "n_main", {}),
   FilterDevice(<<"c">>, <<"1", "1">>, <<"1">>, <<"c", "a", "m">>, {}, <<>>, {},
                "n_gone", {})}

FilterNetworks == <<Net("n_main", "main"), Net("n_iot", "iot"), Net("n_iot", "guest")>>

\* the settings of the filter panel
FilterSettings ==
  {[searchQuery |-> q, deviceTypes |-> ts, networkZones |-> zs, showRisksOnly |-> r] :
     q \in SeqsUpTo({"c", "A", " ", "1"}, MaxQuery),
     ts \in SUBSET {<<"c", "a", "m">>, <<"t", "v">>},
     zs \in SUBSET {"main", "iot"},
     r \in BOOLEAN}

(***************************************************************************)
(* client/src/components/LearningPrompts.tsx                               *)
(***************************************************************************)
\* most prompts of a quiz, most answers of a prompt
MaxPrompts == 3
MaxAnswers == 2

\* learningPromptSchema: id and the isCorrect flags of the answers
Prompt(id, answers) == [id |-> id, answers |-> answers]

\* selectedAnswer === null
NoAnswer == -1

\* useState initialisers of LearningPrompts and the reset effect on [prompts].
\* History fields: lastHandler is the handler that ran last, scoreCount[i] the number of
\* times prompt i was scored in this run, onCompleteCalls the calls of the onComplete prop
QuizMount(prompts) ==
  [prompts |-> prompts, currentIndex |-> 0, selectedAnswer |-> NoAnswer,
   showExplanation |-> FALSE, completedPrompts |-> {}, correctAnswers |-> 0,
   showSummary |-> FALSE, promptResults |-> <<>>,
   lastHandler |-> None, scoreCount |-> [i \in DOMAIN prompts |-> 0], onCompleteCalls |-> 0]

QuizIdle == QuizMount(<<>>)

\* const safeIndex = currentIndex < prompts.length ? currentIndex : 0
quizSafeIndex(q) == IF q.currentIndex < Len(q.prompts) THEN q.currentIndex ELSE 0

currentPrompt(q) == q.prompts[quizSafeIndex(q) + 1]

quizIsComplete(q) == Cardinality(q.completedPrompts) = Len(q.prompts)

isLastPrompt(q) == quizSafeIndex(q) = Len(q.prompts) - 1

\* { ...prev, [id]: isCorrect }
setResult(results, id, isCorrect) ==
  [k \in DOMAIN results \cup {id} |-> IF k = id THEN isCorrect ELSE results[k]]

handleAnswerSelect(q, answerIndex) ==
  LET called == [q EXCEPT !.lastHandler = "select"]
      isCorrect == currentPrompt(q).answers[answerIndex + 1]
  IN IF q.selectedAnswer # NoAnswer THEN called
     ELSE [called EXCEPT !.selectedAnswer = answerIndex,
                         !.showExplanation = TRUE,
                         !.correctAnswers = IF isCorrect THEN @ + 1 ELSE @,
                         !.promptResults = setResult(@, currentPrompt(q).id, isCorrect),
                         !.completedPrompts = @ \cup {currentPrompt(q).id},
                         !.scoreCount[quizSafeIndex(q) + 1] = @ + 1]

handleNext(q) ==
  LET called == [q EXCEPT !.lastHandler = "next"]
  IN IF q.currentIndex < Len(q.prompts) - 1
       THEN [called EXCEPT !.currentIndex = @ + 1, !.selectedAnswer = NoAnswer,
                           !.showExplanation = FALSE]
       ELSE called

handleFinish(q) ==
  LET called == [q EXCEPT !.lastHandler = "finish"]
  IN IF ~quizIsComplete(q) THEN called
     ELSE [called EXCEPT !.showSummary = TRUE, !.onCompleteCalls = @ + 1]

\* handleReset of the quiz: a new run
quizHandleReset(q) == [QuizMount(q.prompts) EXCEPT !.lastHandler = "reset"]

scorePercentFloor(q) == (q.correctAnswers * 100) \div Len(q.prompts)

\* Math.round((correctAnswers / prompts.length) * 100)
scorePercent(q) == (q.correctAnswers * 200 + Len(q.prompts)) \div (2 * Len(q.prompts))

\* prompts.filter(prompt => promptResults[prompt.id] === false)
incorrectPrompts(q) ==
  SelectSeq(q.prompts, LAMBDA p : p.id \in DOMAIN q.promptResults /\ ~q.promptResults[p.id])

\* the summary card is what the component renders
summaryShown(q) == Len(q.prompts) > 0 /\ q.showSummary

\* prompts a scenario can carry: learningPromptSchema asks nothing of the id but that
\* it is a string, nor of the answers but that each has a flag
QuizIds == {"p1", "p2", "p3"}

QuizPrompts ==
  {Prompt(id, answers) : id \in QuizIds, answers \in SeqsUpTo(BOOLEAN, MaxAnswers)}

QuizLists == {ps \in SeqsUpTo(QuizPrompts, MaxPrompts) : ps # <<>>}

(***************************************************************************)
(* NetworkCanvas: the encryption status of a device node                   *)
(***************************************************************************)
encryptedProtocols ==
  {"HTTPS", "SSH", "TLS", "SFTP", "WSS", "IMAPS", "SMTPS", "POP3S",
   "FTPS", "LDAPS", "DNSCrypt", "WireGuard", "OpenVPN", "IPSec",
   "iMessage", "Signal", "WhatsApp"}

unencryptedProtocols ==
  {"HTTP", "FTP", "Telnet", "RTSP", "SMTP", "POP3", "IMAP",
   "DNS", "NTP", "SNMP", "TFTP", "Gopher"}

\* a flow of the scenario: the fields getEncryptionStatus and flowsByDevice read
TrafficFlow(srcDeviceId, encrypted) == [srcDeviceId |-> srcDeviceId, encrypted |-> encrypted]

\* flowsByDevice.get(deviceId) || []
flowsByDevice(flows, deviceId) == SelectSeq(flows, LAMBDA flow : flow.srcDeviceId = deviceId)

\* the status by the protocol tables alone
getEncryptionStatusByProtocols(device, flows) ==
  LET hasEncrypted == \E i \in DOMAIN device.protocols : device.protocols[i] \in encryptedProtocols
      hasUnencrypted ==
        \E i \in DOMAIN device.protocols : device.protocols[i] \in unencryptedProtocols
  IN IF device.protocols = <<>> THEN "unknown"
     ELSE IF hasEncrypted /\ hasUnencrypted THEN "mixed"
     ELSE IF hasEncrypted THEN "encrypted"
     ELSE IF hasUnencrypted THEN "unencrypted"
     ELSE "unknown"

getEncryptionStatus(device, flows) ==
  LET flowEncrypted == \E i \in DOMAIN flows : flows[i].encrypted
      flowUnencrypted == \E i \in DOMAIN flows : ~flows[i].encrypted
      hasEncrypted == \E i \in DOMAIN device.protocols : device.protocols[i] \in encryptedProtocols
      hasUnencrypted ==
        \E i \in DOMAIN device.protocols : device.protocols[i] \in unencryptedProtocols
  IN IF "unencrypted_traffic" \in device.riskFlags THEN "unencrypted"
     ELSE IF Len(flows) > 0 /\ flowEncrypted /\ flowUnencrypted THEN "mixed"
     ELSE IF Len(flows) > 0 /\ flowEncrypted THEN "encrypted"
     ELSE IF Len(flows) > 0 /\ flowUnencrypted THEN "unencrypted"
     ELSE IF device.protocols = <<>> THEN "unknown"
     ELSE IF hasEncrypted /\ hasUnencrypted THEN "mixed"
     ELSE IF hasEncrypted THEN "encrypted"
     ELSE IF hasUnencrypted THEN "unencrypted"
     ELSE "unknown"

\* a DeviceNode that has rendered: the device, the flows of the scenario and the status
\* the node shows
BadgeView(device, scenarioFlows) ==
  [device |-> device, scenarioFlows |-> scenarioFlows, rendered |-> TRUE,
   encryptionStatus |-> getEncryptionStatus(device, flowsByDevice(scenarioFlows, device.id))]

\* a DeviceNode before its first render
BadgePending(device, scenarioFlows) ==
  [device |-> device, scenarioFlows |-> scenarioFlows, rendered |-> FALSE,
   encryptionStatus |-> "unknown"]

MaxFlows == 2

\* protocol names of both tables, one written in lower case, one of neither table
BadgeProtocols == {"HTTPS", "HTTP", "https", "mDNS"}

\* flows of the device, encrypted or not, and a flow of another device
BadgeFlows ==
  SeqsUpTo({TrafficFlow("laptop", TRUE), TrafficFlow("laptop", FALSE),
            TrafficFlow("camera", FALSE)}, MaxFlows)

BadgeDevices ==
  {Dev("laptop", "laptop", "n_main", flags, <<>>, protocols) :
     flags \in SUBSET {"unencrypted_traffic", "iot_device"},
     protocols \in SeqsUpTo(BadgeProtocols, MaxProtocols)}

\* the DeviceNode of the other specifications, never rendered there
BadgeIdle == BadgePending(Dev("laptop", "laptop", "n_main", {}, <<>>, <<>>), <<>>)

\* the components that are not under study, all but the one named, are not running
ToolsIdleBut(used) ==
  /\ IF used = "validator" THEN TRUE ELSE validator = ValidatorIdle
  /\ IF used = "dialog" THEN TRUE ELSE dialog = DialogIdle
  /\ IF used = "filterView" THEN TRUE ELSE filterView = FilterIdle
  /\ IF used = "quiz" THEN TRUE ELSE quiz = QuizIdle
  /\ IF used = "encryptionBadge" THEN TRUE ELSE encryptionBadge = BadgeIdle

ToolsIdle == ToolsIdleBut(None)

ApiNext == GetScenarios \/ GetScenario

Init ==
  ApiInit /\ PageInit /\ nodeLabel = LabelIdle /\ orbit = OrbitIdle /\ ToolsIdle

SpecApi == Init /\ [][ApiNext]_vars

(***************************************************************************)
(* C1, C2: the scenario endpoints                                          *)
(***************************************************************************)
IllFormedId(id) ==
  \/ Len(id) = 0
  \/ Len(id) > 100
  \/ \E i \in 1..Len(id) : id[i] \notin IdCharClass

\* C1: GET /api/scenarios/:id answers 400 "Invalid scenario ID format" when the
\* id is empty, longer than 100 characters or has a character outside
\* [a-zA-Z0-9_-], without a storage call; 404 when the id is well-formed and
\* no stored scenario has it; otherwise 200 with the stored scenario of that id.
C1_ScenarioByIdAnswers ==
  [][GetScenario =>
       LET id == request'.id IN
       /\ IllFormedId(id) =>
            /\ response' = Answer(400, "Invalid scenario ID format", {}, {})
            /\ storageReads' = storageReads
       /\ (~IllFormedId(id) /\ id \notin InstalledIds) => response'.status = 404
       /\ (~IllFormedId(id) /\ id \in InstalledIds) =>
            /\ response'.status = 200
            /\ \E s \in InstalledScenarios : s.id = id /\ response'.scenario = {s}]_vars

C1_Witness ==
  /\ served = MaxRequests
  /\ request.route = "byId"
  /\ Len(request.id) = MaxIdLength + 1
  /\ response.status = 400
  /\ storageReads = 2

\* C2: after any sequence of requests to the two routes the scenarios held by
\* MemStorage are exactly those the constructor installed.
C2_StorageReadOnly ==
  /\ DOMAIN scenarios = InstalledIds
  /\ \A k \in DOMAIN scenarios : scenarios[k] \in InstalledScenarios /\ scenarios[k].id = k
  /\ getAllScenarios(scenarios) = InstalledScenarios

C2_Witness ==
  /\ served = MaxRequests
  /\ request.route = "byId"
  /\ response.status = 404
  /\ storageReads = MaxRequests

(***************************************************************************)
(* The onboarding tour                                                     *)
(***************************************************************************)
TourNext ==
  \/ ListLoaded \/ ScenarioLoaded \/ Reload
  \/ AutoStartTimer \/ ClickNext \/ ClickPrev \/ ClickSkip \/ ReplayTour
  \/ SelectScenario \/ ChangeLayer \/ SelectDevice

SpecTour == Init /\ [][TourNext]_vars

\* the tour shows a step that has a gating action
onGatedStep(t) == t.isActive /\ gatingDep(t) # None

LayerSteps == {"layers_link", "layers_network", "layers_transport", "layers_application"}

\* the layer the step asks the user to switch the Layer Goggles to
layerOfStep(id) ==
  CASE id = "layers_link" -> "link"
    [] id = "layers_network" -> "network"
    [] id = "layers_transport" -> "transport"
    [] id = "layers_application" -> "application"
    [] OTHER -> None

\* C3: on a gated step Next is disabled and the tour does not advance to the
\* following step until satisfyGating was called during this visit of the step;
\* every entry into a gated step starts unsatisfied.
C3_GatingBlocksNext ==
  /\ [](onGatedStep(tour) /\ ~tour.satisfyCalled => ~tour.isGatingSatisfied /\ ~nextEnabled(tour))
  /\ [][(onGatedStep(tour) /\ ~tour.satisfyCalled)
           => ~(tour'.isActive /\ tour'.currentStep = tour.currentStep + 1)]_vars
  /\ [][(onGatedStep(tour') /\ currentStep(tour') # currentStep(tour))
           => (~tour'.isGatingSatisfied /\ ~nextEnabled(tour'))]_vars

\* the tour has passed the satisfied gate of scenario_select and waits, unsatisfied, at layers_link
C3_Witness ==
  /\ tour.isActive
  /\ currentStep(tour).id = "layers_link"
  /\ ~tour.isGatingSatisfied
  /\ ~nextEnabled(tour)

\* C4: at every gated step the action the step asks for satisfies the gate:
\* selecting a scenario at scenario_select, switching the Layer Goggles at the
\* four layer steps, clicking a device at device_inspection.
C4_RequestedActionSatisfiesGate ==
  /\ [][(SelectScenario /\ tour.isActive /\ currentStep(tour).id = "scenario_select")
           => tour'.isGatingSatisfied]_vars
  /\ [][(ChangeLayer /\ tour.isActive /\ currentStep(tour).id \in LayerSteps
             /\ home'.activeLayer # home.activeLayer
             /\ home'.activeLayer = layerOfStep(currentStep(tour).id))
           => tour'.isGatingSatisfied]_vars
  /\ [][(SelectDevice /\ tour.isActive /\ currentStep(tour).id = "device_inspection")
           => tour'.isGatingSatisfied]_vars

(***************************************************************************)
(* C5: the unknown-device modal                                            *)
(***************************************************************************)
UnknownNext ==
  \/ ListLoaded \/ ScenarioLoaded \/ AutoStartTimer \/ ClickNext \/ ClickSkip
  \/ SelectScenario \/ SelectDevice \/ ToggleFocusMode \/ ImportScenario \/ ClickReset
  \/ SuppressUnknown \/ ShowUnknownDetails \/ CloseUnknownModal
  \/ CompleteTask \/ NextTask

SpecUnknown == Init /\ [][UnknownNext]_vars

\* a click that selects a device of type "unknown" or flagged unknown_device
unknownClicked ==
  SelectDevice /\ \E d \in selectedDevice(Cur)' : isUnknownDevice(d)

EventsNext ==
  \/ ListLoaded \/ ScenarioLoaded \/ SelectScenario \/ SelectDevice
  \/ CloseUnknownModal \/ NotifTimer \/ DismissNotification

SpecEvents == Init /\ [][EventsNext]_vars

\* C6: dismissing the active notification leaves no notification active (and a
\* dismissed event is not the active notification again while the scenario stays).
C6_DismissLeavesNoneActive ==
  [][DismissNotification =>
       (notif'.activeEvent = NoEvent /\ notif.activeEvent.id \in notif'.dismissedEvents)]_vars

\* C7: right after a click on a device that has an undismissed onDeviceClick event,
\* such an event of that device is the active notification.
C7_ClickShowsEvent ==
  (home.clicked # None /\ clickEvent(Cur) # {})
     => (/\ notif.activeEvent.trigger = "onDeviceClick"
         /\ notif.activeEvent.deviceId = home.clicked
         /\ notif.activeEvent.id \notin notif.dismissedEvents)

(***************************************************************************)
(* C8: the label of a device node                                          *)
(***************************************************************************)
\* a scenario is shown: a DeviceNode is mounted with the initial layer
LabelInit ==
  ApiInit /\ PageInit /\ nodeLabel \in LabelViews /\ orbit = OrbitIdle /\ ToolsIdle

\* the first render of the DeviceNode
LabelRender ==
  /\ ~nodeLabel.rendered
  /\ nodeLabel' = LabelView(nodeLabel.device, nodeLabel.activeLayer, nodeLabel.flows,
                            nodeLabel.showFullMac)
  /\ UNCHANGED <<apiVars, homeVars, orbit, toolVars>>

\* the activeLayer prop changes and the DeviceNode renders again
LabelSetLayer ==
  \E l \in Range(LayerModes) :
    /\ nodeLabel.rendered /\ l # nodeLabel.activeLayer
    /\ nodeLabel' = LabelView(nodeLabel.device, l, nodeLabel.flows, nodeLabel.showFullMac)
    /\ UNCHANGED <<apiVars, homeVars, orbit, toolVars>>

LabelNext == LabelRender \/ LabelSetLayer

SpecLabel == LabelInit /\ [][LabelNext]_vars

\* C8: the label shows the MAC address on link, the IP address on network, the first
\* two open ports (service name where the port is known) on transport, the first two
\* protocols on application, and a dash when there is nothing to list.
C8_LabelShowsLayerAttribute ==
  nodeLabel.rendered =>
  CASE nodeLabel.activeLayer = "link" ->
         /\ Len(nodeLabel.label) = 1
         /\ nodeLabel.label[1].kind \in {"mac", "macShort"}
         /\ nodeLabel.label[1].text = nodeLabel.device.localId
    [] nodeLabel.activeLayer = "network" ->
         nodeLabel.label = <<Entry("ip", nodeLabel.device.ip)>>
    [] nodeLabel.activeLayer = "transport" ->
         IF nodeLabel.device.openPorts = <<>> THEN nodeLabel.label = Dash
         ELSE /\ Len(nodeLabel.label) = Len(slice(nodeLabel.device.openPorts, 2))
              /\ \A i \in DOMAIN nodeLabel.label :
                   IF portToService(nodeLabel.device.openPorts[i]) # <<>>
                     THEN nodeLabel.label[i] =
                            Entry("service", portToService(nodeLabel.device.openPorts[i])[1])
                     ELSE nodeLabel.label[i] =
                            Entry("port", ToString(nodeLabel.device.openPorts[i]))
    [] nodeLabel.activeLayer = "application" ->
         IF nodeLabel.device.protocols = <<>> THEN nodeLabel.label = Dash
         ELSE /\ Len(nodeLabel.label) = Len(slice(nodeLabel.device.protocols, 2))
              /\ \A i \in DOMAIN nodeLabel.label :
                   nodeLabel.label[i] = Entry("protocol", nodeLabel.device.protocols[i])

(***************************************************************************)
(* C9: the orbit layout                                                    *)
(***************************************************************************)
\* a scenario is handed to the canvas
OrbitInit ==
  ApiInit /\ PageInit /\ nodeLabel = LabelIdle /\ orbit \in {OrbitPending(sc) : sc \in OrbitScenarios}
  /\ ToolsIdle

\* the first render of the canvas computes the memo
OrbitRender ==
  /\ ~orbit.rendered
  /\ orbit' = OrbitView(orbit.scenario)
  /\ UNCHANGED <<apiVars, homeVars, nodeLabel, toolVars>>

\* the scenario prop changes to the scenario without one of its devices (a device
\* filter hides it) and the memo is computed again
OrbitDropDevice ==
  \E i \in DOMAIN orbit.scenario.devices :
    /\ orbit.rendered
    /\ orbit' = OrbitView([orbit.scenario EXCEPT
                             !.devices = SubSeq(@, 1, i - 1) \o SubSeq(@, i + 1, Len(@))])
    /\ UNCHANGED <<apiVars, homeVars, nodeLabel, toolVars>>

OrbitNext == OrbitRender \/ OrbitDropDevice

SpecOrbit == OrbitInit /\ [][OrbitNext]_vars

\* the zone of the network a device names, main when the scenario has no such network
networkZone(sc, d) ==
  IF \E n \in Range(sc.networks) : n.id = d.networkId
    THEN (CHOOSE n \in Range(sc.networks) : n.id = d.networkId).zone
    ELSE "main"

\* the devices that share the ring of device i
ringMates(sc, i) ==
  {j \in DOMAIN sc.devices :
     /\ sc.devices[j].type # "router"
     /\ networkZone(sc, sc.devices[j]) = networkZone(sc, sc.devices[i])}

KeysInit ==
  /\ ApiInit /\ PageInitFrom(ReturningStore)
  /\ nodeLabel = LabelIdle /\ orbit = OrbitIdle /\ ToolsIdle

KeysNext ==
  \/ ListLoaded \/ ScenarioLoaded
  \/ SelectDevice \/ SetFilters \/ KeyDown

SpecKeys == KeysInit /\ [][KeysNext]_vars

\* the last handler run was the keydown listener, and neither Ctrl, Meta nor a text field
\* kept the shortcut from acting
shortcutFree(e) == ~e.ctrlKey /\ ~e.metaKey /\ e.tagName \notin {"INPUT", "TEXTAREA"}

shortcutLayer == ("1" :> "link") @@ ("2" :> "network") @@ ("3" :> "transport")
                 @@ ("4" :> "application")

StoredOnboardings ==
  {FreshOnboarding} \cup
  {[completed |-> FALSE, currentStep |-> k, started |-> TRUE] : k \in {13, 16, 17}}

OnboardingInit ==
  /\ ApiInit
  /\ \E o \in StoredOnboardings : PageInitFrom([FreshStore EXCEPT !.onboarding = o])
  /\ nodeLabel = LabelIdle /\ orbit = OrbitIdle /\ ToolsIdle

OnboardingNext ==
  \/ ListLoaded \/ ScenarioLoaded \/ Reload
  \/ AutoStartTimer \/ ClickNext \/ ClickPrev \/ ClickSkip \/ ReplayTour
  \/ SelectScenario \/ SelectDevice

SpecOnboarding == OnboardingInit /\ [][OnboardingNext]_vars

listedIds(r) == {m.id : m \in r.summaries}

\* C12: the answer to GET /api/scenarios holds exactly one summary per stored scenario,
\* with the numbers of its devices and networks; a request of GET /api/scenarios/:id
\* for the id of a stored scenario, and so for every id the list answer before it
\* held, is answered 200 with the one scenario of that id.
C12_ListAndDetailAgree ==
  [][/\ request'.route = "list" =>
          /\ response'.status = 200
          /\ Cardinality(response'.summaries) = Cardinality(DOMAIN scenarios)
          /\ \A k \in DOMAIN scenarios :
               \E m \in response'.summaries :
                 /\ m.id = scenarios[k].id
                 /\ m.deviceCount = Len(scenarios[k].devices)
                 /\ m.networkCount = Len(scenarios[k].networks)
                 /\ \A n \in response'.summaries : n.id = m.id => n = m
     /\ (request'.route = "byId" /\ \E k \in DOMAIN scenarios : scenarios[k].id = request'.id) =>
          /\ response'.status = 200
          /\ response'.scenario = {s \in getAllScenarios(scenarios) : s.id = request'.id}
          /\ Cardinality(response'.scenario) = 1
     /\ (request.route = "list" /\ request'.route = "byId"
           /\ request'.id \in listedIds(response)) =>
          /\ response'.status = 200
          /\ \E s \in response'.scenario : s.id = request'.id]_vars

\* the list was requested, then a listed scenario, then the list again
C12_Witness ==
  /\ served = MaxRequests /\ storageReads = MaxRequests
  /\ request.route = "list"
  /\ Cardinality(response.summaries) = 3
  /\ \E m \in response.summaries : m.id = HotelId /\ m.deviceCount = 2 /\ m.networkCount = 1

(***************************************************************************)
(* C13, C14: the i18n validator                                            *)
(***************************************************************************)
\* the script is started on three locale files
ValidatorInit ==
  /\ ApiInit /\ PageInit /\ nodeLabel = LabelIdle /\ orbit = OrbitIdle
  /\ validator \in {ValidatorRun([en |-> e, lv |-> l, ru |-> r], FALSE, 0) :
                      e \in LocaleFiles, l \in LocaleFiles, r \in LocaleFiles}
  /\ ToolsIdleBut("validator")

\* node scripts/i18n-validate.js runs to its process.exit
RunValidator ==
  /\ ~validator.exited
  /\ validator' = ValidatorRun(validator.files, TRUE, main(validator.files))
  /\ UNCHANGED <<apiVars, homeVars, canvasVars, dialog, filterView, quiz, encryptionBadge>>

ValidatorNext == RunValidator

SpecValidator == ValidatorInit /\ [][ValidatorNext]_vars

\* the keys of a readable locale file, flattened
flatKeys(file) == IF file = Unreadable THEN {} ELSE DOMAIN flattenObject(file)

\* the translation values of a readable locale file
flatValues(file) ==
  IF file = Unreadable THEN {} ELSE {flattenObject(file)[k] : k \in DOMAIN flattenObject(file)}

\* C13: the validator exits with status 1 whenever some flattened key of en.json is
\* absent from lv.json or from ru.json, and with status 0 only when no key is missing.
C13_MissingKeyFails ==
  validator.exited =>
    ((\E key \in flatKeys(validator.files.en) :
         key \notin flatKeys(validator.files.lv) \/ key \notin flatKeys(validator.files.ru))
       => validator.status = 1)

\* C14: the validator exits with status 1 whenever a translation value of en.json,
\* lv.json or ru.json is an empty string or null.
C14_EmptyValueFails ==
  validator.exited =>
    ((\E l \in Range(REQUIRED_LOCALES) : \E v \in flatValues(validator.files[l]) :
         v = JString(<<>>) \/ v = JNull)
       => validator.status = 1)

(***************************************************************************)
(* C15: the timers of ScenarioExportImport                                 *)
(***************************************************************************)
\* the page of a returning visitor shows the Export/Import button
DialogInit ==
  /\ ApiInit /\ PageInitFrom(ReturningStore) /\ nodeLabel = LabelIdle /\ orbit = OrbitIdle
  /\ dialog = DialogMount
  /\ ToolsIdleBut("dialog")

DialogStep(next) ==
  /\ next.nextTimer <= MaxTimers + 1
  /\ dialog' = next
  /\ UNCHANGED <<apiVars, homeVars, canvasVars, validator, filterView, quiz, encryptionBadge>>

OpenDialog == dialog.mounted /\ ~dialog.isOpen /\ DialogStep([dialog EXCEPT !.isOpen = TRUE])

CloseDialog == dialog.mounted /\ dialog.isOpen /\ DialogStep([dialog EXCEPT !.isOpen = FALSE])

TypeImportText ==
  \E text \in ImportTexts :
    /\ dialog.mounted /\ dialog.isOpen
    /\ DialogStep([dialog EXCEPT !.importText = text])

ClickCopy ==
  /\ dialog.mounted /\ dialog.isOpen /\ ~dialog.copying
  /\ DialogStep(handleCopy(dialog, activeScenario(Cur)))

ClipboardResolves == dialog.copying /\ DialogStep(handleCopyResolved(dialog))

ClipboardRejects == dialog.copying /\ DialogStep(handleCopyRejected(dialog))

\* a handler of the component that may call onImport, which is handleImportScenario
\* of Home
ImportStep(next) ==
  /\ next.nextTimer <= MaxTimers + 1
  /\ dialog' = next
  /\ IF next.onImportCalls = dialog.onImportCalls
       THEN UNCHANGED homeVars
       ELSE \E s \in {Settle(Cur, handleImportScenario(Cur, next.lastImported))} :
              /\ s.home.actionsResetKey <= MaxResets
              /\ tour' = s.tour
              /\ home' = s.home
              /\ acts' = s.acts
              /\ notif' = s.notif
              /\ cache' = s.cache
              /\ localStore' = Persist(s)
  /\ UNCHANGED <<apiVars, canvasVars, validator, filterView, quiz, encryptionBadge>>

ClickImport ==
  /\ dialog.mounted /\ dialog.isOpen
  /\ ImportStep(handleImportText(dialog))

ChooseFile ==
  \E content \in ImportTexts :
    /\ dialog.mounted /\ dialog.isOpen /\ dialog.reading = {}
    /\ DialogStep(handleFileUpload(dialog, content))

FileLoaded == dialog.reading # {} /\ ImportStep(readerOnLoad(dialog))

TimerFires == \E timer \in dialog.timers : DialogStep(timerCallback(dialog, timer))

\* focus mode is switched on or the tour starts: the page stops rendering the component
DialogUnmount == dialog.mounted /\ DialogStep(unmountCleanup(dialog))

DialogNext ==
  \/ ListLoaded \/ ScenarioLoaded
  \/ OpenDialog \/ CloseDialog \/ TypeImportText \/ ClickCopy \/ ClipboardResolves
  \/ ClipboardRejects \/ ClickImport \/ ChooseFile \/ FileLoaded \/ TimerFires
  \/ DialogUnmount

SpecDialog == DialogInit /\ [][DialogNext]_vars

\* C15: once the component is unmounted every timer it scheduled has fired or been
\* cancelled, no timer callback runs after the unmount, and timeoutRefs holds exactly
\* the timers that are scheduled and have not fired.
C15_TimersCleanedUp ==
  /\ ~dialog.mounted => dialog.timers = {}
  /\ dialog.lateCallbacks = 0
  /\ dialog.timeoutRefs = {t.id : t \in dialog.timers}

(***************************************************************************)
(* C16: the device filter                                                  *)
(***************************************************************************)
\* a component that filters a device list is mounted
FilterInit ==
  /\ ApiInit /\ PageInit /\ nodeLabel = LabelIdle /\ orbit = OrbitIdle
  /\ filterView \in {FilterPending(ds, FilterNetworks, f) :
                       ds \in SeqsUpTo(FilterPool, MaxFilterDevices), f \in FilterSettings}
  /\ ToolsIdleBut("filterView")

\* the first render computes the memo
FilterRender ==
  /\ ~filterView.rendered
  /\ filterView' = FilterView(filterView.devices, filterView.networks, filterView.filters)
  /\ UNCHANGED <<apiVars, homeVars, canvasVars, validator, dialog, quiz, encryptionBadge>>

\* Clear filters: the filters prop becomes defaultFilters and the memo is computed again
FilterClear ==
  /\ filterView.rendered /\ filterView.filters # defaultFilters
  /\ filterView' = FilterView(filterView.devices, filterView.networks, defaultFilters)
  /\ UNCHANGED <<apiVars, homeVars, canvasVars, validator, dialog, quiz, encryptionBadge>>

FilterNext == FilterRender \/ FilterClear

SpecFilter == FilterInit /\ [][FilterNext]_vars

\* the text occurs in the field, letter case aside
occursIn(text, field) ==
  \E i \in 1..Len(field) :
    /\ i + Len(text) - 1 <= Len(field)
    /\ \A j \in 1..Len(text) : lowerCase(<<text[j]>>) = lowerCase(<<field[i + j - 1]>>)

isBlank(text) == \A i \in 1..Len(text) : text[i] = " "

\* the device satisfies every active criterion
passesFilters(d, networks, f) ==
  /\ isBlank(f.searchQuery)
       \/ \E field \in {d.label, d.ip, d.localId, d.type} \cup d.manufacturer
                         \cup Range(d.protocols) \cup d.description :
            occursIn(f.searchQuery, field)
  /\ f.deviceTypes = {} \/ d.type \in f.deviceTypes
  /\ f.networkZones = {}
       \/ \E j \in DOMAIN networks :
            /\ networks[j].id = d.networkId
            /\ \A k \in 1..(j - 1) : networks[k].id # d.networkId
            /\ networks[j].zone \in f.networkZones
  /\ ~f.showRisksOnly \/ d.riskFlags # {}

\* C16: the result holds exactly the devices that satisfy all active criteria, in their
\* original order; with the default filters and with a query of spaces only (the other
\* criteria off) it is the full device list.
C16_FilterResult ==
  filterView.rendered =>
    LET v == filterView
        kept == {i \in DOMAIN v.devices : passesFilters(v.devices[i], v.networks, v.filters)}
    IN /\ Len(v.filtered) = Cardinality(kept)
       /\ \A n \in DOMAIN v.filtered :
            \E i \in kept : /\ Cardinality({j \in kept : j <= i}) = n
                            /\ v.filtered[n] = v.devices[i]
       /\ (v.filters = defaultFilters
             \/ (isBlank(v.filters.searchQuery)
                   /\ v.filters = [defaultFilters EXCEPT !.searchQuery = v.filters.searchQuery]))
            => v.filtered = v.devices

\* the query "A " with capital and space finds the laptop by its description "a c" and
\* drops the camera in front of it
C16_Witness ==
  /\ filterView.rendered
  /\ filterView.filters.searchQuery = <<"A", " ">>
  /\ Len(filterView.devices) = 2
  /\ filterView.devices[1].type = <<"c", "a", "m">>
  /\ Len(filterView.filtered) = 1
  /\ filterView.filtered[1] = filterView.devices[2]

(***************************************************************************)
(* The quiz of a scenario: LearningPrompts under every prompt list         *)
(***************************************************************************)
QuizInit ==
  /\ ApiInit /\ PageInit /\ nodeLabel = LabelIdle /\ orbit = OrbitIdle
  /\ ToolsIdleBut("quiz")
  /\ quiz \in {QuizMount(ps) : ps \in QuizLists}

QuizStep(next) ==
  /\ quiz' = next
  /\ UNCHANGED <<apiVars, homeVars, canvasVars, validator, dialog, filterView, encryptionBadge>>

\* an answer button; the handler itself looks at selectedAnswer
ClickAnswer ==
  /\ ~summaryShown(quiz)
  /\ \E answerIndex \in 0..(Len(currentPrompt(quiz).answers) - 1) :
       QuizStep(handleAnswerSelect(quiz, answerIndex))

\* {showExplanation && currentIndex < prompts.length - 1 && <Button onClick={handleNext}>}
ClickNextPrompt ==
  /\ ~summaryShown(quiz)
  /\ quiz.showExplanation /\ quiz.currentIndex < Len(quiz.prompts) - 1
  /\ QuizStep(handleNext(quiz))

\* {showExplanation && isLastPrompt && <Button onClick={handleFinish}>}
ClickFinish ==
  /\ ~summaryShown(quiz)
  /\ quiz.showExplanation /\ isLastPrompt(quiz)
  /\ QuizStep(handleFinish(quiz))

\* the restart button of the summary card
ClickRestartQuiz ==
  /\ summaryShown(quiz)
  /\ QuizStep(quizHandleReset(quiz))

QuizNext == ClickAnswer \/ ClickNextPrompt \/ ClickFinish \/ ClickRestartQuiz

SpecQuiz == QuizInit /\ [][QuizNext]_vars

\* the state hooks of the quiz without the record of the handler that ran
hooksOf(q) == [q EXCEPT !.lastHandler = None]

\* C17: in every state of a quiz over a non-empty prompt list the current index is
\* within the list, the correct answers are at most the completed prompts, which are
\* at most the prompts, no prompt is scored twice in a run, and selecting an answer
\* on a prompt that already has one changes nothing
C17_QuizBookkeeping ==
  /\ [](/\ 0 <= quiz.currentIndex /\ quiz.currentIndex < Len(quiz.prompts)
        /\ quiz.correctAnswers <= Cardinality(quiz.completedPrompts)
        /\ Cardinality(quiz.completedPrompts) <= Len(quiz.prompts)
        /\ \A i \in DOMAIN quiz.prompts : quiz.scoreCount[i] <= 1)
  /\ [][(quiz.selectedAnswer # NoAnswer /\ quiz'.lastHandler = "select")
          => hooksOf(quiz') = hooksOf(quiz)]_vars

\* C18: the summary is shown only when every prompt of the list has been answered, and
\* then the correct answers and the prompts listed as incorrect add up to the prompts,
\* and the score shown is the percentage of correct answers rounded to the nearest integer
C18_SummaryConsistent ==
  summaryShown(quiz) =>
    /\ \A i \in DOMAIN quiz.prompts : quiz.scoreCount[i] >= 1
    /\ quiz.correctAnswers + Len(incorrectPrompts(quiz)) = Len(quiz.prompts)
    /\ \A p \in 0..100 :
         p = scorePercent(quiz) <=>
           /\ 2 * p * Len(quiz.prompts) - Len(quiz.prompts) <= 200 * quiz.correctAnswers
           /\ 200 * quiz.correctAnswers < 2 * p * Len(quiz.prompts) + Len(quiz.prompts)

\* the summary of three prompts, two of them answered correctly: 67 percent
C18_Witness ==
  /\ summaryShown(quiz) /\ Len(quiz.prompts) = 3
  /\ quiz.correctAnswers = 2 /\ Len(incorrectPrompts(quiz)) = 1
  /\ scorePercent(quiz) = 67

(***************************************************************************)
(* One run of the quiz by a user who keeps answering and pressing the      *)
(* button that is shown                                                    *)
(***************************************************************************)
QuizRunNext == ClickAnswer \/ ClickNextPrompt \/ ClickFinish

SpecQuizRun ==
  /\ QuizInit /\ [][QuizRunNext]_vars
  /\ WF_vars(ClickAnswer) /\ WF_vars(ClickNextPrompt) /\ WF_vars(ClickFinish)

\* every prompt offers an answer to select
answerable(q) == \A i \in DOMAIN q.prompts : Len(q.prompts[i].answers) > 0

lastAnswered(q) == isLastPrompt(q) /\ q.selectedAnswer # NoAnswer

\* C19: over every non-empty prompt list whose prompts can be answered, the user who
\* answers each prompt and presses Next reaches the summary: the progress count equals
\* the total exactly when the last prompt is answered, Finish shows the summary, and
\* onComplete is called once
C19_QuizTerminates ==
  /\ <>(~answerable(quiz) \/ (summaryShown(quiz) /\ quiz.onCompleteCalls = 1))
  /\ [](answerable(quiz) =>
          /\ quizIsComplete(quiz) <=> lastAnswered(quiz)
          /\ quiz.onCompleteCalls <= 1)
  /\ [][(answerable(quiz) /\ quiz'.lastHandler = "finish" /\ quiz.lastHandler # "finish")
          => summaryShown(quiz')]_vars

(***************************************************************************)
(* The guided tasks of a scenario: ScenarioActions on the page of a        *)
(* returning visitor                                                       *)
(***************************************************************************)
GuidedInit ==
  /\ ApiInit /\ PageInitFrom(ReturningStore)
  /\ nodeLabel = LabelIdle /\ orbit = OrbitIdle /\ ToolsIdle

GuidedNext ==
  \/ ListLoaded \/ ScenarioLoaded
  \/ SelectScenario \/ SelectDevice \/ CloseUnknownModal
  \/ CompleteTask \/ NextTask \/ TryAgain \/ RestartTasks

SpecGuided == GuidedInit /\ [][GuidedNext]_vars

\* the target of the current task against the selection of the page
targetMatchesSelection ==
  LET target == currentTask(Cur).target
      selected == findDevice(activeScenario(Cur), home.selectedDeviceId)
  IN \/ target.type = "none"
     \/ target.type = "device" /\ \E d \in selected : d.id = target.id
     \/ target.type = "network" /\ \E d \in selected : d.networkId = target.id

\* C20: pressing Complete marks the current task completed (its id joins completedIds,
\* the status is success, onActionComplete is called once with its id) when the target
\* of the task matches the selection, and otherwise sets the status to failure, leaves
\* completedIds alone and does not call onActionComplete
C20_CompleteIffTargetMatches ==
  [][CompleteTask =>
       IF targetMatchesSelection
         THEN /\ acts'.completedIds = acts.completedIds \cup {currentTask(Cur).id}
              /\ acts'.status = "success"
              /\ acts'.reported = <<currentTask(Cur).id>>
         ELSE /\ acts'.status = "failure"
              /\ acts'.completedIds = acts.completedIds
              /\ acts'.reported = <<>>]_vars

\* a task aimed at a network was completed with a device of that network selected
C20_Witness ==
  /\ acts.mounted /\ acts.status = "success"
  /\ \E d \in selectedDevice(Cur) :
       /\ d.id # currentTask(Cur).target.id
       /\ currentTask(Cur).target = [type |-> "network", id |-> d.networkId]
  /\ acts.reported = <<currentTask(Cur).id>>
  /\ currentTask(Cur).id \in acts.completedIds

(***************************************************************************)
(* The guided tasks under scenario switches, imports and resets            *)
(***************************************************************************)
TasksNext ==
  \/ ListLoaded \/ ScenarioLoaded
  \/ SelectScenario \/ SelectDevice \/ CloseUnknownModal
  \/ ImportScenario \/ ClickReset
  \/ CompleteTask \/ NextTask \/ TryAgain \/ RestartTasks

SpecTasks == GuidedInit /\ [][TasksNext]_vars

\* the debrief card is what ScenarioActions renders
debriefShown == acts.mounted /\ acts.showDebrief /\ isComplete(Cur)

\* the scenario.id and resetKey props of ScenarioActions
actsResetDeps == <<activeScenario(Cur).id, home.actionsResetKey>>

\* C21: the guided tasks are completed in list order: the tasks before the current
\* index are all completed, the index advances by one only and only from a task whose
\* status is success, the debrief is shown only when every task is completed, and a
\* change of scenario id or of resetKey puts the component back at index 0 with nothing
\* completed
C21_TasksInOrder ==
  /\ [](acts.mounted =>
          /\ acts.currentIndex < Len(tasksOf(Cur))
          /\ \A k \in 1..acts.currentIndex : tasksOf(Cur)[k].id \in acts.completedIds
          /\ debriefShown => \A k \in DOMAIN tasksOf(Cur) : tasksOf(Cur)[k].id \in acts.completedIds)
  /\ [][/\ acts'.currentIndex > acts.currentIndex =>
              acts'.currentIndex = acts.currentIndex + 1 /\ acts.status = "success"
        /\ actsResetDeps' # actsResetDeps =>
              acts'.currentIndex = 0 /\ acts'.completedIds = {} /\ ~acts'.showDebrief]_vars

\* the debrief of a scenario with two tasks, after a reset had restarted them
C21_Witness ==
  /\ debriefShown /\ acts.currentIndex = 1 /\ Len(tasksOf(Cur)) = 2
  /\ home.actionsResetKey > 0

(***************************************************************************)
(* The unknown-device prompt once it is suppressed for a scenario          *)
(***************************************************************************)
SuppressNext ==
  \/ ListLoaded \/ ScenarioLoaded \/ Reload
  \/ SelectScenario \/ SelectDevice \/ ImportScenario \/ ClickReset
  \/ SuppressUnknown \/ ShowUnknownDetails \/ CloseUnknownModal
  \/ CompleteTask \/ NextTask

SpecSuppress == GuidedInit /\ [][SuppressNext]_vars

\* C22: while a scenario whose unknown-device prompt was suppressed is the active one,
\* neither the modal nor the inline card is visible, and the set of suppressed scenario
\* ids never loses a member
C22_SuppressedStaysQuiet ==
  /\ []((activeScenario(Cur) # NoScenario
          /\ activeScenario(Cur).id \in home.suppressUnknownScenarios)
        => ~unknownModalVisible(Cur) /\ ~showInlineUnknown(Cur))
  /\ [][home.suppressUnknownScenarios \subseteq home'.suppressUnknownScenarios]_vars

\* an unknown device is selected during the tasks of a suppressed scenario, while
\* another scenario is suppressed too and localStorage holds both ids
C22_Witness ==
  /\ activeScenario(Cur) # NoScenario
  /\ activeScenario(Cur).id \in home.suppressUnknownScenarios
  /\ Cardinality(home.suppressUnknownScenarios) = 2
  /\ \E d \in selectedDevice(Cur) : isUnknownDevice(d)
  /\ tasksInProgress(Cur)
  /\ localStore.suppressUnknown = home.suppressUnknownScenarios

(***************************************************************************)
(* The view buttons, focus mode and the tour                               *)
(***************************************************************************)
ViewsNext ==
  \/ ListLoaded \/ ScenarioLoaded
  \/ AutoStartTimer \/ ClickNext \/ ClickSkip \/ ReplayTour
  \/ SelectDevice \/ ToggleFocusMode
  \/ ViewMap \/ ViewTable \/ ViewCompare \/ CloseComparison

SpecViews == Init /\ [][ViewsNext]_vars

\* C23: whenever the advanced views are locked (focus mode is on or the tour is active),
\* after the effects have run the view mode is "map" and the comparison is closed
C23_LockedShowsMap ==
  disableAdvancedViews(Cur) => home.viewMode = "map" /\ ~home.showComparison

(***************************************************************************)
(* C24: the import dialog and the page                                     *)
(***************************************************************************)
\* the user pastes a text into the import field
PasteText ==
  \E text \in PastedTexts :
    /\ dialog.mounted /\ dialog.isOpen
    /\ DialogStep([dialog EXCEPT !.importText = text])

ImportNext ==
  \/ ListLoaded \/ ScenarioLoaded \/ SelectDevice \/ SetFilters
  \/ OpenDialog \/ PasteText \/ ClickImport \/ TimerFires

SpecImport == DialogInit /\ [][ImportNext]_vars

\* the text is JSON of a scenario that passes scenarioSchema and has a device, a
\* network and a router
importable(text) ==
  /\ jsonParse(text).ok
  /\ safeParse(scenarioSchema, jsonParse(text).value).success
  /\ LET scenario == scenarioOf(safeParse(scenarioSchema, jsonParse(text).value).data)
     IN /\ Len(scenario.devices) >= 1
        /\ Len(scenario.networks) >= 1
        /\ \E k \in DOMAIN scenario.devices : scenario.devices[k].type = "router"

\* the step is a click on Import that changed something: it leaves the import text as
\* it is
importClicked ==
  /\ dialog' # dialog
  /\ dialog'.importText = dialog.importText
  /\ ClickImport

\* C24: onImport is called only with the scenario of a text that parses as JSON, passes
\* scenarioSchema and has at least one device, one network and one router; a click on
\* Import with an empty text, malformed JSON or a rejected scenario sets the error
\* message, does not call onImport and leaves the active scenario, the selection and
\* the filters of the page as they were.
C24_FailedImportChangesNothing ==
  [][/\ dialog'.onImportCalls # dialog.onImportCalls =>
          \E text \in {dialog.importText} \cup dialog.reading :
             /\ importable(text)
             /\ dialog'.lastImported =
                  scenarioOf(safeParse(scenarioSchema, jsonParse(text).value).data)
     /\ (importClicked /\ ~importable(dialog.importText)) =>
          /\ dialog'.importError
          /\ dialog'.onImportCalls = dialog.onImportCalls
          /\ activeScenario(Cur)' = activeScenario(Cur)
          /\ home'.selectedDeviceId = home.selectedDeviceId
          /\ home'.filters = home.filters]_vars

\* a scenario that parses and is rejected was refused while a device of the active
\* scenario is selected and a filter is set
C24_Witness ==
  /\ dialog.importError /\ dialog.onImportCalls = 0
  /\ jsonParse(dialog.importText).ok /\ ~importable(dialog.importText)
  /\ activeScenario(Cur) # NoScenario
  /\ home.selectedDeviceId # None
  /\ home.filters # defaultFilters

(***************************************************************************)
(* C25: export, then import                                                *)
(***************************************************************************)
\* the user copies the text of the export tab into the import field
PasteExport ==
  /\ dialog.mounted /\ dialog.isOpen
  /\ activeScenario(Cur) # NoScenario
  /\ DialogStep([dialog EXCEPT !.importText = exportJson(activeScenario(Cur))])

RoundTripNext ==
  \/ ListLoaded \/ ScenarioLoaded \/ SelectScenario \/ SelectDevice \/ ImportScenario
  \/ OpenDialog \/ PasteExport \/ ClickImport \/ TimerFires

SpecRoundTrip == DialogInit /\ [][RoundTripNext]_vars

BadgeInit ==
  /\ ApiInit /\ PageInit /\ nodeLabel = LabelIdle /\ orbit = OrbitIdle
  /\ encryptionBadge \in {BadgePending(d, fs) : d \in BadgeDevices, fs \in BadgeFlows}
  /\ ToolsIdleBut("encryptionBadge")

\* the first render of the DeviceNode
BadgeRender ==
  /\ ~encryptionBadge.rendered
  /\ encryptionBadge' = BadgeView(encryptionBadge.device, encryptionBadge.scenarioFlows)
  /\ UNCHANGED <<apiVars, homeVars, canvasVars, validator, dialog, filterView, quiz>>

\* the scenario prop changes and the DeviceNode renders again
BadgeSetFlows ==
  \E fs \in BadgeFlows :
    /\ encryptionBadge.rendered /\ fs # encryptionBadge.scenarioFlows
    /\ encryptionBadge' = BadgeView(encryptionBadge.device, fs)
    /\ UNCHANGED <<apiVars, homeVars, canvasVars, validator, dialog, filterView, quiz>>

BadgeNext == BadgeRender \/ BadgeSetFlows

SpecBadge == BadgeInit /\ [][BadgeNext]_vars

\* the three-way rule of the claim
threeWay(someEncrypted, someUnencrypted) ==
  IF someEncrypted /\ someUnencrypted THEN "mixed"
  ELSE IF someEncrypted THEN "encrypted"
  ELSE IF someUnencrypted THEN "unencrypted"
  ELSE "unknown"

\* C26: the status of a rendered node is one of the four values; it is "unencrypted"
\* for a device with the unencrypted_traffic flag whatever its flows and protocols;
\* otherwise, with flows, "mixed" when encrypted and unencrypted flows exist,
\* "encrypted" when all are encrypted, "unencrypted" when none is; otherwise the same
\* rule over the protocols found, by their exact names, in the table of encrypted and
\* in the table of unencrypted protocols, and "unknown" when none is in either table.
C26_EncryptionStatusPrecedence ==
  encryptionBadge.rendered =>
    LET device == encryptionBadge.device
        flows == {f \in Range(encryptionBadge.scenarioFlows) : f.srcDeviceId = device.id}
        status == encryptionBadge.encryptionStatus
    IN /\ status \in {"encrypted", "mixed", "unencrypted", "unknown"}
       /\ IF "unencrypted_traffic" \in device.riskFlags THEN status = "unencrypted"
          ELSE IF flows # {}
            THEN /\ status = threeWay(\E f \in flows : f.encrypted, \E f \in flows : ~f.encrypted)
                 /\ status = "encrypted" <=> \A f \in flows : f.encrypted
                 /\ status = "unencrypted" <=> \A f \in flows : ~f.encrypted
          ELSE status = threeWay(Range(device.protocols) \cap encryptedProtocols # {},
                                 Range(device.protocols) \cap unencryptedProtocols # {})

\* a flagged device whose flows are encrypted and whose protocol is HTTPS shows
\* "unencrypted"
C26_Witness ==
  /\ encryptionBadge.rendered
  /\ "unencrypted_traffic" \in encryptionBadge.device.riskFlags
  /\ \E i \in DOMAIN encryptionBadge.scenarioFlows :
       /\ encryptionBadge.scenarioFlows[i].srcDeviceId = encryptionBadge.device.id
       /\ encryptionBadge.scenarioFlows[i].encrypted
  /\ encryptionBadge.device.protocols = <<"HTTPS">>
  /\ encryptionBadge.encryptionStatus = "unencrypted"

(***************************************************************************)
(* C27: Reset scenario                                                     *)
(***************************************************************************)
\* the user presses r with the focus on the page
PressR == Commit(handleKeyDown(Cur, KeyEvent("r", FALSE, FALSE, "BODY")))

ResetNext ==
  \/ ListLoaded \/ ScenarioLoaded \/ SelectDevice \/ SetFilters
  \/ TogglePacketJourney \/ ChangeLayer \/ ViewTable \/ ViewCompare \/ ImportScenario
  \/ SuppressUnknown \/ CompleteTask \/ NextTask \/ ClickReset \/ PressR

SpecReset == GuidedInit /\ [][ResetNext]_vars

\* the step is a click on the Reset button or a press of r that resets
resetStep ==
  /\ home'.actionsResetKey = home.actionsResetKey + 1
  /\ \/ ClickReset
     \/ PressR

\* C27: a reset clears the device selection, the filters, the packet journey, the
\* comparison view, the imported scenario, the action outcome and the active task and
\* restarts the guided tasks; it leaves the selected scenario id, the active layer, the
\* view mode, focus mode and the suppressed scenarios as they were; afterwards the
\* active scenario is the fetched scenario of the selected id.
C27_ResetFrame ==
  [][resetStep =>
       /\ home'.selectedDeviceId = None
       /\ home'.filters = defaultFilters
       /\ ~home'.showPacketJourney
       /\ ~home'.showComparison
       /\ home'.importedScenario = NoScenario
       /\ home'.actionOutcome = NoOutcome
       /\ home'.activeTask = NoTask
       /\ acts'.mounted =>
            /\ acts'.currentIndex = 0 /\ acts'.completedIds = {}
            /\ acts'.status = "idle" /\ ~acts'.showDebrief
       /\ home'.selectedScenarioId = home.selectedScenarioId
       /\ home'.activeLayer = home.activeLayer
       /\ home'.viewMode = home.viewMode
       /\ home'.focusMode = home.focusMode
       /\ home'.suppressUnknownScenarios = home.suppressUnknownScenarios
       /\ activeScenario(Cur)' = fetchedScenario(Cur)']_vars

====
